---- MODULE Spec2Model ----
(***************************************************************************)
(* A model of the devtree pipeline (dang3r/devtree): the stage runner,     *)
(* the predicate aggregator, the device store (db.py / lib.py) and the     *)
(* store persistence routines.  Each component has its own specification   *)
(* (SpecStage, SpecAgg, ...); the variables of the other components keep   *)
(* their initial value under it.                                           *)
(***************************************************************************)
EXTENDS Integers, Sequences, FiniteSets, TLC

VARIABLES
    \* ---- run_stage (pipeline.py:80-140)
    pc,            \* position inside run_stage
    items,         \* the items argument
    skip_fn,       \* the skip_fn argument, as the set of items it answers True for
    task_fn,       \* the task_fn argument, as item -> what the call does
    max_workers,   \* pool size of the executor argument
    nfilter,       \* number of items the filter loop has looked at
    skipped,       \* the list skipped
    to_process,    \* the list to_process
    futures,       \* the dict futures: future (position in to_process) -> item_id
    collected,     \* futures as_completed has already yielded
    idx,           \* enumerate() counter of the as_completed loop
    succeeded,     \* the list succeeded
    failed,        \* the list failed
    exc,           \* the exception that is propagating out of run_stage, or "none"
    shut,          \* executor.shutdown(wait=True) has run
    stage_result,  \* the returned StageResult, or NoResult
    \* ---- aggregate_predicates (aggregate.py:47-76, pipeline.py:165-188)
    agg_module,       \* which of the two aggregate_predicates the run calls
    extract_results,  \* the extract_results argument
    aggregated,       \* the returned dict, or NotRun
    \* ---- the device database (db.py) as run_pipeline and verify.py use it
    db_devices,       \* db.devices: k_number -> DeviceEntry
    pdf_files,        \* k_numbers that have a file pdfs/<k_number>.pdf
    db_op,            \* the operation that produced this state
    db_k,             \* the k_number that operation was called with
    \* ---- the store files and their load/save routines (lib.py, db.py)
    build,            \* which side of the conflict regions of lib.py is built
    store_routine,    \* the save routine (and its loader) the process uses
    store_file,       \* the file at the store path
    tmp_file,         \* the file at path.with_suffix(".tmp")
    mem_db,           \* what the loader returned or raised; mutated in memory
    store_pc,         \* position of the process
    save_text,        \* the serialized entries the running save writes
    prev_file,        \* the file at the store path when the running save began
    loaded_from,      \* the file the loader read, while mem_db is unmodified
    roundtrip,        \* mem_db has not been modified since it was loaded
    \* ---- text extraction (pipeline/extract.py, extractor.py, extract_predicates.py)
    ex_pc,            \* which function has run
    ex_text,          \* the text of the PDF (extract_text_from_pdf), as characters
    ex_readable,      \* pymupdf can open the PDF
    ex_page_count,    \* number of pages of the PDF
    ex_use_ocr,       \* the use_ocr_fallback argument
    ex_ocr,           \* what extract_with_ocr returns: (text, error)
    ex_impl,          \* the module whose extract_k_numbers ran
    ex_valid,         \* the list extract_k_numbers returned
    ex_malformed,     \* the list find_malformed_k_numbers returned
    ex_result,        \* the ExtractionResult process_single_pdf returned
    ex_text_file,     \* the file text_dir/<k_number>.txt
    \* ---- the device graph (pipeline/graph.py, build_graph.py)
    gr_pc,            \* position inside graph.main
    fda_devices,      \* keys of the dict load_fda_data returns
    gr_predicates,    \* the predicates argument: items (source, targets) in dict order
    graph,            \* the DeviceGraph build_graph returned
    graph_json,       \* the file export_graph wrote
    cytoscape_json,   \* the file export_cytoscape wrote
    bad_edges_json,   \* the file bad_edges.json
    \* ---- _find_longest_path_from_node (pipeline/analyze.py:204-226)
    lp_pc,            \* position of the call
    lp_G,             \* the DiGraph: node -> list(G.successors(node))
    lp_start,         \* start_node
    lp_stack,         \* the active calls of dfs, innermost last
    lp_longest,       \* the nonlocal longest
    lp_result,        \* the returned list
    \* ---- PDF download (pipeline/download.py, identify_new_devices)
    dl_pc,            \* position of the run
    dl_ages,          \* device of the FDA registry -> days since its decision_date
    no_summary,       \* the list pdf_data["no_summary"] on disk
    local_pdfs,       \* device ids with a file pdfs/<id>.pdf
    to_download,      \* the download set the run has selected
    dl_results,       \* summary.results, in completion order
    dl_last,          \* the last download_single_pdf call: responses and result
    \* ---- whole runs of run_pipeline over a device list (run_pipeline.py:89-195)
    run_pc,           \* position inside run_pipeline
    run_no,           \* number of the run
    run_k_numbers,    \* fetch_result.new_k_numbers
    run_docs,         \* device -> the ExtractionResult its document gives
    run_results,      \* download_summary.results of the run
    db_json,          \* db.devices as written to db.json
    after_first,      \* db.devices at the end of the first run
    \* ---- find_parent_companies (cluster_companies.py:97-152)
    cl_pc,            \* position of the call
    name_counts,      \* the Counter name_counts: applicant name -> devices
    min_variants,     \* the min_variants argument
    min_devices,      \* the min_devices argument
    cl_parents,       \* the returned set
    \* ---- identifier lists on their way to the output (benchmark_extraction.py,
    \*      verify.py, pipeline.py existing_predicates_aggregate)
    ing_pc,           \* position of the call
    ing_route,        \* the routine the list goes through
    ing_source,       \* the identifiers the source holds
    ing_out,          \* the list the routine passed on, or NotRun
    \* ---- fetch_and_diff_with_db (pipeline/fetch.py:137-188)
    fe_pc,            \* position of the call
    fe_results,       \* the k_number of each record of new_data["results"]
    fe_db,            \* db.devices: k_number -> entry
    fe_new,           \* FetchResult.new_k_numbers
    fe_reprocess,     \* FetchResult.reprocess_k_numbers
    \* ---- aggregation and merge in fda_extraction_pipeline (pipeline.py:435-472)
    mg_pc,            \* position inside fda_extraction_pipeline
    mg_results,       \* extract_results: the results the stages succeeded with
    mg_files,         \* the ground-truth files that hold an entry for the device
    mg_aggregated,    \* aggregated_predicates.json
    mg_final,         \* final_predicates.json
    \* ---- download_pdfs_async (pipeline/download.py:99-164)
    as_ids,           \* the device_ids argument
    as_max,           \* the max_concurrent argument
    as_files,         \* device ids with a file output_dir/<id>.pdf
    as_sem,           \* the value of the semaphore
    as_tasks,         \* position in tasks -> state of that download_single_pdf
    as_results,       \* the list results, in completion order
    as_summary        \* the returned DownloadSummary, or NotRun

stageVars == <<pc, items, skip_fn, task_fn, max_workers, nfilter, skipped,
               to_process, futures, collected, idx, succeeded, failed, exc,
               shut, stage_result>>

aggVars == <<agg_module, extract_results, aggregated>>

dbVars == <<db_devices, pdf_files, db_op, db_k>>

storeVars == <<build, store_routine, store_file, tmp_file, mem_db, store_pc,
               save_text, prev_file, loaded_from, roundtrip>>

extractVars == <<ex_pc, ex_text, ex_readable, ex_page_count, ex_use_ocr, ex_ocr,
                 ex_impl, ex_valid, ex_malformed, ex_result, ex_text_file>>

graphVars == <<gr_pc, fda_devices, gr_predicates, graph, graph_json,
               cytoscape_json, bad_edges_json>>

pathVars == <<lp_pc, lp_G, lp_start, lp_stack, lp_longest, lp_result>>

downloadVars == <<dl_pc, dl_ages, no_summary, local_pdfs, to_download,
                  dl_results, dl_last>>

runVars == <<run_pc, run_no, run_k_numbers, run_docs, run_results, db_json,
             after_first>>

clusterVars == <<cl_pc, name_counts, min_variants, min_devices, cl_parents>>

\* the components added after the whole-run component
ingestVars == <<ing_pc, ing_route, ing_source, ing_out>>

fetchVars == <<fe_pc, fe_results, fe_db, fe_new, fe_reprocess>>

mergeVars == <<mg_pc, mg_results, mg_files, mg_aggregated, mg_final>>

asyncVars == <<as_ids, as_max, as_files, as_sem, as_tasks, as_results, as_summary>>

laterVars == <<clusterVars, ingestVars, fetchVars, mergeVars, asyncVars>>

oldVars == <<stageVars, aggVars, dbVars, storeVars, extractVars, graphVars,
             pathVars, downloadVars, runVars>>

vars == <<stageVars, aggVars, dbVars, storeVars, extractVars, graphVars, pathVars,
          downloadVars, runVars, laterVars>>

\* What the actions of one component leave alone: the other components.
StageFrame ==
    UNCHANGED <<aggVars, dbVars, storeVars, extractVars, graphVars, pathVars, downloadVars, runVars, laterVars>>
AggFrame ==
    UNCHANGED <<stageVars, dbVars, storeVars, extractVars, graphVars, pathVars, downloadVars, runVars, laterVars>>
DbFrame ==
    UNCHANGED <<stageVars, aggVars, storeVars, extractVars, graphVars, pathVars, downloadVars, runVars, laterVars>>
StoreFrame ==
    UNCHANGED <<stageVars, aggVars, dbVars, extractVars, graphVars, pathVars, downloadVars, runVars, laterVars>>
ExtractFrame ==
    UNCHANGED <<stageVars, aggVars, dbVars, storeVars, graphVars, pathVars, downloadVars, runVars, laterVars>>
GraphFrame ==
    UNCHANGED <<stageVars, aggVars, dbVars, storeVars, extractVars, pathVars, downloadVars, runVars, laterVars>>
PathFrame ==
    UNCHANGED <<stageVars, aggVars, dbVars, storeVars, extractVars, graphVars, downloadVars, runVars, laterVars>>
DownloadFrame ==
    UNCHANGED <<stageVars, aggVars, dbVars, storeVars, extractVars, graphVars, pathVars, runVars, laterVars>>

ClusterFrame == UNCHANGED <<oldVars, ingestVars, fetchVars, mergeVars, asyncVars>>
IngestFrame == UNCHANGED <<oldVars, clusterVars, fetchVars, mergeVars, asyncVars>>
FetchFrame == UNCHANGED <<oldVars, clusterVars, ingestVars, mergeVars, asyncVars>>
MergeFrame == UNCHANGED <<oldVars, clusterVars, ingestVars, fetchVars, asyncVars>>
AsyncFrame == UNCHANGED <<oldVars, clusterVars, ingestVars, fetchVars, mergeVars>>

\* ------------------------------------------------------------------------
\* Bounds of the model
\* ------------------------------------------------------------------------
MaxItems == 11      \* longest items list given to run_stage
MaxSkip == 1        \* most items skip_fn answers True for
MaxBad == 1         \* most items task_fn fails on
MaxWorkers == 2     \* largest executor pool
MaxResults == 3     \* longest extract_results list given to aggregate_predicates

\* ------------------------------------------------------------------------
\* Values the components rest at under another component's specification
\* ------------------------------------------------------------------------
NotRun == [notrun |-> TRUE]

StageIdle ==
    /\ pc = "idle"
    /\ items = <<>>
    /\ skip_fn = {}
    /\ task_fn = <<>>
    /\ max_workers = 0
    /\ nfilter = 0
    /\ skipped = <<>>
    /\ to_process = <<>>
    /\ futures = <<>>
    /\ collected = {}
    /\ idx = 0
    /\ succeeded = <<>>
    /\ failed = <<>>
    /\ exc = "none"
    /\ shut = FALSE
    /\ stage_result = [none |-> TRUE]

AggIdle ==
    /\ agg_module = "none"
    /\ extract_results = <<>>
    /\ aggregated = NotRun

\* an empty db.devices
NoDevices == [k \in {} |-> {}]

DbIdle ==
    /\ db_devices = NoDevices
    /\ pdf_files = {}
    /\ db_op = "none"
    /\ db_k = "none"

\* a path at which no file exists
NoFile == [exists |-> FALSE, entries |-> <<>>, closed |-> FALSE]

\* no loader has run in this process
NotLoaded == [status |-> "unloaded", devices |-> <<>>]

StoreIdle ==
    /\ build = "none"
    /\ store_routine = "none"
    /\ store_file = NoFile
    /\ tmp_file = NoFile
    /\ mem_db = NotLoaded
    /\ store_pc = "idle"
    /\ save_text = <<>>
    /\ prev_file = NoFile
    /\ loaded_from = NoFile
    /\ roundtrip = FALSE

ExtractIdle ==
    /\ ex_pc = "idle"
    /\ ex_text = <<>>
    /\ ex_readable = FALSE
    /\ ex_page_count = 0
    /\ ex_use_ocr = FALSE
    /\ ex_ocr = NotRun
    /\ ex_impl = "none"
    /\ ex_valid = <<>>
    /\ ex_malformed = <<>>
    /\ ex_result = NotRun
    /\ ex_text_file = NotRun

GraphIdle ==
    /\ gr_pc = "idle"
    /\ fda_devices = {}
    /\ gr_predicates = <<>>
    /\ graph = NotRun
    /\ graph_json = NotRun
    /\ cytoscape_json = NotRun
    /\ bad_edges_json = NotRun

PathIdle ==
    /\ lp_pc = "idle"
    /\ lp_G = <<>>
    /\ lp_start = "none"
    /\ lp_stack = <<>>
    /\ lp_longest = <<>>
    /\ lp_result = <<>>

DownloadIdle ==
    /\ dl_pc = "idle"
    /\ dl_ages = <<>>
    /\ no_summary = <<>>
    /\ local_pdfs = {}
    /\ to_download = {}
    /\ dl_results = <<>>
    /\ dl_last = NotRun

RunIdle ==
    /\ run_pc = "idle"
    /\ run_no = 0
    /\ run_k_numbers = <<>>
    /\ run_docs = <<>>
    /\ run_results = <<>>
    /\ db_json = NoDevices
    /\ after_first = NotRun

ClusterIdle ==
    /\ cl_pc = "idle"
    /\ name_counts = <<>>
    /\ min_variants = 0
    /\ min_devices = 0
    /\ cl_parents = {}

IngestIdle ==
    /\ ing_pc = "idle"
    /\ ing_route = "none"
    /\ ing_source = <<>>
    /\ ing_out = NotRun

FetchIdle ==
    /\ fe_pc = "idle"
    /\ fe_results = <<>>
    /\ fe_db = <<>>
    /\ fe_new = <<>>
    /\ fe_reprocess = <<>>

MergeIdle ==
    /\ mg_pc = "idle"
    /\ mg_results = <<>>
    /\ mg_files = {}
    /\ mg_aggregated = NotRun
    /\ mg_final = NotRun

AsyncIdle ==
    /\ as_ids = <<>>
    /\ as_max = 0
    /\ as_files = {}
    /\ as_sem = 0
    /\ as_tasks = <<>>
    /\ as_results = <<>>
    /\ as_summary = NotRun

LaterIdle == ClusterIdle /\ IngestIdle /\ FetchIdle /\ MergeIdle /\ AsyncIdle

OldIdle ==
    /\ StageIdle /\ AggIdle /\ DbIdle /\ StoreIdle /\ ExtractIdle
    /\ GraphIdle /\ PathIdle /\ DownloadIdle /\ RunIdle

ClusterRest == OldIdle /\ IngestIdle /\ FetchIdle /\ MergeIdle /\ AsyncIdle
IngestRest == OldIdle /\ ClusterIdle /\ FetchIdle /\ MergeIdle /\ AsyncIdle
FetchRest == OldIdle /\ ClusterIdle /\ IngestIdle /\ MergeIdle /\ AsyncIdle
MergeRest == OldIdle /\ ClusterIdle /\ IngestIdle /\ FetchIdle /\ AsyncIdle
AsyncRest == OldIdle /\ ClusterIdle /\ IngestIdle /\ FetchIdle /\ MergeIdle

\* the components other than the one a specification is about are at rest
StageRest ==
    AggIdle /\ DbIdle /\ StoreIdle /\ ExtractIdle /\ GraphIdle /\ PathIdle /\ DownloadIdle /\ RunIdle /\ LaterIdle
AggRest ==
    StageIdle /\ DbIdle /\ StoreIdle /\ ExtractIdle /\ GraphIdle /\ PathIdle /\ DownloadIdle /\ RunIdle /\ LaterIdle
DbRest ==
    StageIdle /\ AggIdle /\ StoreIdle /\ ExtractIdle /\ GraphIdle /\ PathIdle /\ DownloadIdle /\ RunIdle /\ LaterIdle
StoreRest ==
    StageIdle /\ AggIdle /\ DbIdle /\ ExtractIdle /\ GraphIdle /\ PathIdle /\ DownloadIdle /\ RunIdle /\ LaterIdle
ExtractRest ==
    StageIdle /\ AggIdle /\ DbIdle /\ StoreIdle /\ GraphIdle /\ PathIdle /\ DownloadIdle /\ RunIdle /\ LaterIdle
GraphRest ==
    StageIdle /\ AggIdle /\ DbIdle /\ StoreIdle /\ ExtractIdle /\ PathIdle /\ DownloadIdle /\ RunIdle /\ LaterIdle
PathRest ==
    StageIdle /\ AggIdle /\ DbIdle /\ StoreIdle /\ ExtractIdle /\ GraphIdle /\ DownloadIdle /\ RunIdle /\ LaterIdle
RunFrame ==
    UNCHANGED <<stageVars, aggVars, storeVars, extractVars, graphVars, pathVars, downloadVars, laterVars>>
RunRest ==
    StageIdle /\ AggIdle /\ StoreIdle /\ ExtractIdle /\ GraphIdle /\ PathIdle /\ DownloadIdle /\ LaterIdle
DownloadRest ==
    StageIdle /\ AggIdle /\ DbIdle /\ StoreIdle /\ ExtractIdle /\ GraphIdle /\ PathIdle /\ RunIdle /\ LaterIdle

\* ------------------------------------------------------------------------
\* run_stage
\* ------------------------------------------------------------------------
NoResult == [none |-> TRUE]

\* What one call task_fn(item_id) does: return a result whose error is unset,
\* return a result whose error is set, raise, or return None (the wrappers
\* _extract_regex_task / _extract_ollama_task are typed "ExtractionResult | None").
Outcomes == {"ok", "error_result", "raises", "returns_none"}

\* The progress report prints every len(futures) // 10 items.
ProgressParts == 10

TaskFns(n) ==
    UNION {
        { [k \in 1..n |-> IF k \in B THEN kinds[k] ELSE "ok"] :
              kinds \in [B -> Outcomes \ {"ok"}] } :
        B \in {S \in SUBSET (1..n) : Cardinality(S) <= MaxBad} }

StageInit ==
    /\ pc = "filter"
    /\ \E n \in 0..MaxItems :
         /\ items = [k \in 1..n |-> k]
         /\ skip_fn \in {S \in SUBSET (1..n) : Cardinality(S) <= MaxSkip}
         /\ task_fn \in TaskFns(n)
    /\ max_workers \in 1..MaxWorkers
    /\ nfilter = 0
    /\ skipped = <<>>
    /\ to_process = <<>>
    /\ futures = <<>>
    /\ collected = {}
    /\ idx = 0
    /\ succeeded = <<>>
    /\ failed = <<>>
    /\ exc = "none"
    /\ shut = FALSE
    /\ stage_result = NoResult
    /\ StageRest

\* lines 104-108: one iteration of the filter loop
FilterItem ==
    /\ StageFrame
    /\ pc = "filter"
    /\ nfilter < Len(items)
    /\ LET item_id == items[nfilter + 1] IN
         /\ nfilter' = nfilter + 1
         /\ IF item_id \in skip_fn
              THEN skipped' = Append(skipped, item_id) /\ UNCHANGED to_process
              ELSE to_process' = Append(to_process, item_id) /\ UNCHANGED skipped
    /\ UNCHANGED <<pc, items, skip_fn, task_fn, max_workers, futures, collected,
                   idx, succeeded, failed, exc, shut, stage_result>>

\* line 111: every item of to_process is submitted; one future per position
SubmitAll ==
    /\ StageFrame
    /\ pc = "filter"
    /\ nfilter = Len(items)
    /\ futures' = to_process
    /\ pc' = "collect"
    /\ UNCHANGED <<items, skip_fn, task_fn, max_workers, nfilter, skipped,
                   to_process, collected, idx, succeeded, failed, exc, shut,
                   stage_result>>

\* The futures the pool can have finished next: it runs at most max_workers
\* tasks at a time and starts them in submission order.
Uncollected == {f \in DOMAIN futures : f \notin collected}

Running ==
    {f \in Uncollected :
        Cardinality({g \in Uncollected : g < f}) < max_workers}

\* line 114: idx % (len(futures) // 10) raises ZeroDivisionError when the
\* divisor is 0
ProgressRaises == Len(futures) \div ProgressParts = 0

\* lines 113-128: one iteration of the as_completed loop, for future f
CollectFuture(f) ==
    /\ StageFrame
    /\ pc = "collect"
    /\ f \in Running
    /\ collected' = collected \cup {f}
    /\ IF ProgressRaises
         THEN /\ exc' = "ZeroDivisionError"
              /\ pc' = "finally"
              /\ UNCHANGED <<idx, succeeded, failed>>
         ELSE LET item_id == futures[f]
                  out == task_fn[item_id] IN
              /\ idx' = idx + 1
              /\ pc' = "collect"
              /\ exc' = "none"
              /\ CASE out = "ok" ->
                        /\ succeeded' = Append(succeeded, <<item_id, "result">>)
                        /\ UNCHANGED failed
                   [] out = "error_result" ->
                        /\ failed' = Append(failed, <<item_id, "result_with_error">>)
                        /\ UNCHANGED succeeded
                   [] out = "raises" ->
                        /\ failed' = Append(failed, <<item_id, "str(e)">>)
                        /\ UNCHANGED succeeded
                   [] out = "returns_none" ->
                        \* None.error raises AttributeError, caught at line 125
                        /\ failed' = Append(failed, <<item_id, "str(e)">>)
                        /\ UNCHANGED succeeded
    /\ UNCHANGED <<items, skip_fn, task_fn, max_workers, nfilter, skipped,
                   to_process, futures, shut, stage_result>>

Collect == \E f \in DOMAIN futures : CollectFuture(f)

\* the as_completed loop is exhausted
CollectDone ==
    /\ StageFrame
    /\ pc = "collect"
    /\ Uncollected = {}
    /\ pc' = "finally"
    /\ UNCHANGED <<items, skip_fn, task_fn, max_workers, nfilter, skipped,
                   to_process, futures, collected, idx, succeeded, failed, exc,
                   shut, stage_result>>

\* lines 129-130: the finally block; a propagating exception leaves run_stage
Shutdown ==
    /\ StageFrame
    /\ pc = "finally"
    /\ shut' = TRUE
    /\ pc' = IF exc = "none" THEN "build" ELSE "raised"
    /\ UNCHANGED <<items, skip_fn, task_fn, max_workers, nfilter, skipped,
                   to_process, futures, collected, idx, succeeded, failed, exc,
                   stage_result>>

\* lines 132-140
StageReturn ==
    /\ StageFrame
    /\ pc = "build"
    /\ stage_result' = [succeeded |-> succeeded, failed |-> failed,
                        skipped |-> skipped,
                        results |-> succeeded \o failed \o skipped]
    /\ pc' = "returned"
    /\ UNCHANGED <<items, skip_fn, task_fn, max_workers, nfilter, skipped,
                   to_process, futures, collected, idx, succeeded, failed, exc,
                   shut>>

\* ---- properties of run_stage

StageEnded == pc \in {"returned", "raised"}

\* f is the payload run_stage records for a failing call of task_fn
FailPayload(out) == IF out = "error_result" THEN "result_with_error" ELSE "str(e)"

InExactlyOne(item_id, r) ==
    Cardinality({k \in DOMAIN r.succeeded : r.succeeded[k][1] = item_id})
      + Cardinality({k \in DOMAIN r.failed : r.failed[k][1] = item_id})
      + Cardinality({k \in DOMAIN r.skipped : r.skipped[k] = item_id}) = 1

\* C1: whatever the length of items and whatever task_fn and skip_fn do, a call
\* of run_stage ends by returning a StageResult in which every input item is in
\* exactly one of succeeded, failed and skipped, so the three lengths add up to
\* len(items).
C1_EveryItemAccounted ==
    StageEnded =>
        /\ stage_result # NoResult
        /\ \A k \in DOMAIN items : InExactlyOne(items[k], stage_result)
        /\ Len(stage_result.succeeded) + Len(stage_result.failed)
             + Len(stage_result.skipped) = Len(items)

\* C2: when task_fn raises for an item or returns a result whose error is set,
\* run_stage records that item in failed with its error, still handles every
\* other submitted item, and returns normally: no exception leaves run_stage.
C2_FailureIsolated ==
    (StageEnded /\ \E k \in DOMAIN to_process :
                       task_fn[to_process[k]] \in {"raises", "error_result"}) =>
        /\ pc = "returned"
        /\ exc = "none"
        /\ \A k \in DOMAIN to_process :
             LET item_id == to_process[k]
                 out == task_fn[item_id] IN
             IF out = "ok"
               THEN \E j \in DOMAIN succeeded : succeeded[j][1] = item_id
               ELSE \E j \in DOMAIN failed :
                        failed[j] = <<item_id, FailPayload(out)>>

StageNext ==
    \/ FilterItem
    \/ SubmitAll
    \/ Collect
    \/ CollectDone
    \/ Shutdown
    \/ StageReturn

SpecStage == StageInit /\ [][StageNext]_vars

\* ------------------------------------------------------------------------
\* aggregate_predicates
\* ------------------------------------------------------------------------
\* Python's None, where a str | None is expected and where an ExtractionResult
\* is expected (TLC compares only values of one kind)
None == "<None>"
NoneResult == [py_none |-> TRUE]

\* Python truthiness of an error field (str | None)
Truthy(error) == error # None /\ error # ""

AggDevices == {"K000001", "K000002"}
AggTypes == {"human_raw", "regex_ministral", "regex_raw"}
AggPredicates == {<<>>, <<"K000009">>}
AggErrors == {None, "failed"}

\* method and source of a result whose type tag is t (type = method + "_" + source)
MethodOf(t) == IF t = "human_raw" THEN "human" ELSE "regex"
SourceOf(t) == IF t = "regex_ministral" THEN "ministral" ELSE "raw"

\* The ExtractionResult objects aggregate_predicates reads: device_id,
\* predicates, method, source, type, error.
AggResults ==
    { [device_id |-> d, predicates |-> ps, method |-> MethodOf(t),
       source |-> SourceOf(t), type |-> t, error |-> e] :
          d \in AggDevices, ps \in AggPredicates, t \in AggTypes, e \in AggErrors }

\* aggregate.py:30-39, read with .get(key, 99)
NEW_EXTRACTION_PRIORITY(key) ==
    CASE key = "human_raw" -> 0
      [] key = "claude_code_raw" -> 1
      [] key = "ollama_ministral-3:3b_ministral" -> 2
      [] key = "ollama_ministral-3:3b_pymupdf" -> 3
      [] key = "ollama_ministral-3:3b_tesseract" -> 4
      [] key = "regex_ministral3b" -> 6
      [] key = "regex_pymupdf" -> 7
      [] key = "regex_tesseract" -> 8
      [] OTHER -> 99

\* pipeline.py:153-162, read with .get(key, 99)
pipeline_NEW_EXTRACTION_PRIORITY(key) ==
    CASE key = "human_raw" -> 0
      [] key = "claude_code_raw" -> 1
      [] key = "ollama_ministral-3:3b_ministral" -> 2
      [] key = "ollama_ministral-3:3b_tesseract" -> 4
      [] key = "ollama_ministral-3:3b_pymupdf" -> 3
      [] key = "regex_ministral" -> 6
      [] key = "regex_tesseract" -> 8
      [] key = "regex_pymupdf" -> 7
      [] OTHER -> 99

\* "priority = NEW_EXTRACTION_PRIORITY.get(key, 99)" in the named module
priority_of(module, key) ==
    IF module = "pipeline"
      THEN pipeline_NEW_EXTRACTION_PRIORITY(key)
      ELSE NEW_EXTRACTION_PRIORITY(key)

\* "if extract_result and not extract_result.error"
accepted_mutant(extract_result) ==
    /\ extract_result # NoneResult
    /\ ~Truthy(extract_result.error)
    /\ extract_result.predicates # <<>>

accepted(extract_result) ==
    /\ extract_result # NoneResult
    /\ ~Truthy(extract_result.error)

\* min(entries, key=lambda x: x[0]): the first entry with the least x[0]
py_min_mutant(entries) == entries[1]

RECURSIVE py_min(_)
py_min(entries) ==
    IF Len(entries) = 1
      THEN entries[1]
      ELSE LET rest == py_min(Tail(entries)) IN
           IF Head(entries)[1] <= rest[1] THEN Head(entries) ELSE rest

\* the loop that fills by_device, for one device: its (priority, result)
\* entries in input order
by_device(results, device_id, module) ==
    LET kept == SelectSeq(results,
                          LAMBDA r : accepted(r) /\ r.device_id = device_id) IN
    [k \in DOMAIN kept |-> <<priority_of(module, kept[k].type), kept[k]>>]

by_device_keys(results) ==
    {results[k].device_id : k \in {j \in DOMAIN results : accepted(results[j])}}

\* the loop that fills aggregated; the final sort by device_id orders the
\* keys of the dict and changes neither its keys nor its values
aggregate_with(results, module) ==
    [device_id \in by_device_keys(results) |->
        LET best == py_min(by_device(results, device_id, module))[2] IN
        [predicates |-> best.predicates, method |-> best.method,
         source |-> best.source, type |-> best.type]]

\* aggregate.py:47-76
aggregate_predicates(results) == aggregate_with(results, "aggregate")

\* pipeline.py:165-188: the list holds (input, result) pairs
pipeline_aggregate_predicates(pairs) ==
    aggregate_with([k \in DOMAIN pairs |-> pairs[k][2]], "pipeline")

\* run_stage's succeeded list for these results: (item_id, result) pairs
AsPairs(results) == [k \in DOMAIN results |-> <<k, results[k]>>]

SeqsUpTo(S, n) == UNION {[1..k -> S] : k \in 0..n}

AggInit ==
    /\ agg_module \in {"aggregate", "pipeline"}
    \* the pipeline's list is the succeeded list of run_stage, which holds no None
    /\ extract_results \in SeqsUpTo(AggResults \cup {NoneResult}, MaxResults)
    /\ agg_module = "pipeline" => \A k \in DOMAIN extract_results :
                                     extract_results[k] # NoneResult
    /\ aggregated = NotRun
    /\ AggRest

\* one call of aggregate.aggregate_predicates
AggregateRun ==
    /\ agg_module = "aggregate"
    /\ aggregated' = aggregate_predicates(extract_results)
    /\ UNCHANGED <<agg_module, extract_results>>
    /\ AggFrame

\* one call of pipeline.aggregate_predicates
PipelineAggregateRun ==
    /\ agg_module = "pipeline"
    /\ aggregated' = pipeline_aggregate_predicates(AsPairs(extract_results))
    /\ UNCHANGED <<agg_module, extract_results>>
    /\ AggFrame

\* The same collection of results arrives in another order (the completion
\* order of run_stage is not fixed): two neighbours change places.
Reorder ==
    /\ \E k \in 1..(Len(extract_results) - 1) :
         extract_results' = [extract_results EXCEPT
                               ![k] = extract_results[k + 1],
                               ![k + 1] = extract_results[k]]
    /\ UNCHANGED <<agg_module, aggregated>>
    /\ AggFrame

\* ---- properties of aggregate_predicates

\* the priority table of the aggregate_predicates that ran
AggPriority(t) == priority_of(agg_module, t)

\* positions of the input list that hold an error-free result for device d
ErrorFreeOf(d) ==
    {k \in DOMAIN extract_results :
        /\ extract_results[k] # NoneResult
        /\ extract_results[k].error = None
        /\ extract_results[k].device_id = d}

AllOf(d) ==
    {k \in DOMAIN extract_results :
        /\ extract_results[k] # NoneResult
        /\ extract_results[k].device_id = d}

EntryOf(r) ==
    [predicates |-> r.predicates, method |-> r.method, source |-> r.source,
     type |-> r.type]

\* C3: when a device has error-free results with different priority numbers
\* (two, or more with one strictly lowest), the output holds the one with the
\* lowest number, wherever it stands in the list: the output computed for one
\* order of the list is the lowest-numbered result of every other order.
C3_LowerPriorityWins ==
    aggregated # NotRun =>
        \A d \in AggDevices : \A a \in ErrorFreeOf(d) :
            ( /\ Cardinality(ErrorFreeOf(d)) >= 2
              /\ \A b \in ErrorFreeOf(d) \ {a} :
                   AggPriority(extract_results[a].type)
                     < AggPriority(extract_results[b].type) )
            => /\ d \in DOMAIN aggregated
               /\ aggregated[d] = EntryOf(extract_results[a])

\* a run has answered, and in the present order of the list the winner of a
\* device with two error-free results of different priority stands last
C3_Witness ==
    /\ aggregated # NotRun
    /\ \E d \in AggDevices : \E a, b \in ErrorFreeOf(d) :
         /\ ErrorFreeOf(d) = {a, b}
         /\ a < b
         /\ AggPriority(extract_results[b].type)
              < AggPriority(extract_results[a].type)
         /\ d \in DOMAIN aggregated
         /\ aggregated[d] = EntryOf(extract_results[b])

\* C4: the output depends only on the collection of inputs: the output
\* computed for one order of the list equals the output for any other order,
\* also when two error-free results of a device have equal priority numbers.
C4_OrderIndependent ==
    aggregated # NotRun =>
        aggregated = IF agg_module = "pipeline"
                       THEN pipeline_aggregate_predicates(AsPairs(extract_results))
                       ELSE aggregate_predicates(extract_results)

\* C5: a device is in the output exactly when one of its results has no
\* error; a device whose only error-free result has no predicates is in the
\* output with an empty list.
C5_PresentIffErrorFree ==
    aggregated # NotRun =>
        /\ \A d \in AggDevices : d \in DOMAIN aggregated <=> ErrorFreeOf(d) # {}
        /\ DOMAIN aggregated \subseteq AggDevices
        /\ \A d \in AggDevices : \A a \in ErrorFreeOf(d) :
             (ErrorFreeOf(d) = {a} /\ extract_results[a].predicates = <<>>)
               => aggregated[d].predicates = <<>>

\* a run has answered for a list in which one device has only an error-free
\* result without predicates and another device has only results with errors
C5_Witness ==
    /\ aggregated # NotRun
    /\ \E d, e \in AggDevices :
         /\ \E a \in ErrorFreeOf(d) :
              /\ ErrorFreeOf(d) = {a}
              /\ extract_results[a].predicates = <<>>
         /\ d \in DOMAIN aggregated
         /\ aggregated[d].predicates = <<>>
         /\ AllOf(e) # {}
         /\ ErrorFreeOf(e) = {}
         /\ e \notin DOMAIN aggregated

AggNext ==
    \/ AggregateRun
    \/ PipelineAggregateRun
    \/ Reorder

SpecAgg == AggInit /\ [][AggNext]_vars

\* ------------------------------------------------------------------------
\* The device database: db.py, updated by run_pipeline and verify.py
\* ------------------------------------------------------------------------
\* DeviceEntry declares predicates, pdf_present and errors; the other
\* attributes that db.py, verify.py and run_pipeline read and assign on an
\* entry (human_verified, extraction_method, text_length, chars_per_page,
\* page_count, flags) are modelled as attributes of the entry that hold their
\* empty value until assigned.  last_processed, a timestamp, is left out.
DeviceErrors == [download_error |-> None, extraction_error |-> None,
                 ocr_error |-> None]

DeviceEntry ==
    [predicates |-> <<>>, pdf_present |-> FALSE, errors |-> DeviceErrors,
     human_verified |-> FALSE, extraction_method |-> "none",
     text_length |-> 0, chars_per_page |-> 0, page_count |-> 0, flags |-> <<>>]

DbDevices == {"K000001", "K000002"}

\* "k_number in db.devices"
has_key(devices, k_number) == \E k \in DOMAIN devices : k = k_number

\* "if k_number not in db.devices: db.devices[k_number] = DeviceEntry()"
with_entry(devices, k_number) ==
    IF has_key(devices, k_number)
      THEN devices
      ELSE [k \in DOMAIN devices \cup {k_number} |->
              IF k = k_number THEN DeviceEntry ELSE devices[k]]

\* db.py:122-135
update_device_from_download(devices, k_number, success, error) ==
    LET created == with_entry(devices, k_number)
        marked == [created EXCEPT ![k_number].pdf_present = success] IN
    IF Truthy(error)
      THEN [marked EXCEPT ![k_number].errors.download_error = error]
      ELSE marked

update_device_from_extraction_mutant(devices, k_number, predicates, extraction_method, text_length, chars_per_page, page_count, flags, extraction_error, ocr_error) ==
    LET created == with_entry(devices, k_number) IN
    [created EXCEPT ![k_number] =
        [DeviceEntry EXCEPT !.predicates = predicates,
                            !.extraction_method = extraction_method,
                            !.text_length = text_length,
                            !.chars_per_page = chars_per_page,
                            !.page_count = page_count,
                            !.flags = flags,
                            !.human_verified = created[k_number].human_verified,
                            !.errors.extraction_error = extraction_error,
                            !.errors.ocr_error = ocr_error]]

\* db.py:138-166
update_device_from_extraction(devices, k_number, predicates, extraction_method, text_length, chars_per_page, page_count, flags, extraction_error, ocr_error) ==
    LET created == with_entry(devices, k_number)
        assigned == [created EXCEPT ![k_number].predicates = predicates,
                                    ![k_number].extraction_method = extraction_method,
                                    ![k_number].text_length = text_length,
                                    ![k_number].chars_per_page = chars_per_page,
                                    ![k_number].page_count = page_count,
                                    ![k_number].flags = flags]
        with_error == IF Truthy(extraction_error)
                        THEN [assigned EXCEPT
                                ![k_number].errors.extraction_error = extraction_error]
                        ELSE assigned IN
    IF Truthy(ocr_error)
      THEN [with_error EXCEPT ![k_number].errors.ocr_error = ocr_error]
      ELSE with_error

\* the predicates argument of set_human_verified when it is None
NonePredicates == <<None>>

\* db.py:169-182: the returned bool, and db.devices afterwards
set_human_verified_returns(devices, k_number) == has_key(devices, k_number)

set_human_verified(devices, k_number, predicates) ==
    IF ~has_key(devices, k_number)
      THEN devices
      ELSE LET kept == IF predicates # NonePredicates
                         THEN [devices EXCEPT ![k_number].predicates = predicates]
                         ELSE devices IN
           [kept EXCEPT ![k_number].human_verified = TRUE]

\* db.py:84-96 and 102-106: a device the fetch-and-diff run may pass to
\* extraction is new, or is a reprocess candidate, which is never a verified one
may_process_after_fetch(devices, k_number) ==
    IF has_key(devices, k_number)
      THEN ~devices[k_number].human_verified
      ELSE TRUE

\* download.py:99-136: what download_single_pdf can return for a device
DownloadResults(k_number) ==
    IF k_number \in pdf_files
      THEN {[device_id |-> k_number, status |-> "skipped", error |-> None]}
      ELSE {[device_id |-> k_number, status |-> "success", error |-> None],
            [device_id |-> k_number, status |-> "failed", error |-> "HTTP 500"],
            [device_id |-> k_number, status |-> "not_found", error |-> "HTTP 404"]}

\* extract.py:193-282: the ExtractionResult objects process_single_pdf returns,
\* flattened to the fields update_db_from_results reads: the two results of
\* the OCR branch (the only ones without error, see process_single_pdf
\* below), the results of the read of the unbound local malformed, and the
\* result of a PDF that cannot be opened
ExtractionResults(k_number) ==
    {[k_number |-> k_number, predicates |-> <<"K000009">>, flags |-> <<"sparse_text">>,
      extraction_method |-> "ocr", text_length |-> 40,
      chars_per_page |-> 20, page_count |-> 2, error |-> None,
      ocr_error |-> None],
     [k_number |-> k_number, predicates |-> <<>>, flags |-> <<"sparse_text">>,
      extraction_method |-> "ocr", text_length |-> 40,
      chars_per_page |-> 20, page_count |-> 2, error |-> None,
      ocr_error |-> None],
     [k_number |-> k_number, predicates |-> <<>>, flags |-> <<>>,
      extraction_method |-> "pymupdf", text_length |-> 0,
      chars_per_page |-> 0, page_count |-> 0,
      error |-> "UnboundLocalError: malformed", ocr_error |-> None],
     [k_number |-> k_number, predicates |-> <<>>, flags |-> <<>>,
      extraction_method |-> "pymupdf", text_length |-> 0,
      chars_per_page |-> 0, page_count |-> 0,
      error |-> "UnboundLocalError: malformed", ocr_error |-> "OCR failed"],
     [k_number |-> k_number, predicates |-> <<>>, flags |-> <<>>,
      extraction_method |-> "none", text_length |-> 0,
      chars_per_page |-> 0, page_count |-> 0, error |-> "FileDataError: cannot open",
      ocr_error |-> None]}

\* run_pipeline.py:68-86, for one result of the list
update_db_from_result(devices, result) ==
    update_device_from_extraction(devices, result.k_number, result.predicates, result.extraction_method, result.text_length, result.chars_per_page, result.page_count, result.flags, result.error, result.ocr_error)

\* the three ways run_pipeline picks the devices of a run (run_pipeline.py:107-140)
RunModes == {"fetch", "k_numbers", "skip_fetch"}

DbInit ==
    /\ db_devices = NoDevices
    /\ pdf_files \in SUBSET DbDevices
    /\ db_op = "none"
    /\ db_k = "none"
    /\ DbRest

\* run_pipeline.py:165-177: the download of one device and its db update
DownloadUpdate ==
    /\ \E k_number \in DbDevices : \E result \in DownloadResults(k_number) :
         /\ db_devices' = update_device_from_download(
                              db_devices, result.device_id,
                              result.status = "success", result.error)
         /\ pdf_files' = IF result.status = "success"
                           THEN pdf_files \cup {k_number}
                           ELSE pdf_files
         /\ db_k' = k_number
    /\ db_op' = "download"
    /\ DbFrame

\* run_pipeline.py:185-195: the extraction of one device that has a PDF and
\* its db update
ExtractionUpdate ==
    /\ \E mode \in RunModes : \E k_number \in pdf_files :
         /\ mode = "fetch" => may_process_after_fetch(db_devices, k_number)
         /\ \E result \in ExtractionResults(k_number) :
              db_devices' = update_db_from_result(db_devices, result)
         /\ db_k' = k_number
    /\ db_op' = "extraction"
    /\ UNCHANGED pdf_files
    /\ DbFrame

\* verify.py:53-81
VerifyDevice ==
    /\ \E k_number \in DbDevices :
       \E predicates \in {NonePredicates, <<>>, <<"K000009">>} :
         /\ db_devices' = set_human_verified(db_devices, k_number, predicates)
         /\ db_op' = IF set_human_verified_returns(db_devices, k_number)
                       THEN "verify" ELSE "verify_failed"
         /\ db_k' = k_number
    /\ UNCHANGED pdf_files
    /\ DbFrame

\* ---- properties of the device database

\* the entry of a device, a device without entry reading as a fresh DeviceEntry
EntryView(devices, d) == IF has_key(devices, d) THEN devices[d] ELSE DeviceEntry

\* C6: once set_human_verified has succeeded for a device, an automatic
\* extraction update (update_device_from_extraction through
\* update_db_from_results, in any run mode) leaves its predicates as they are.
C6_VerifiedFrozen ==
    [][db_op' = "extraction" =>
         \A d \in DbDevices :
             (has_key(db_devices, d) /\ db_devices[d].human_verified)
               => db_devices'[d].predicates = db_devices[d].predicates]_vars

\* C7: an extraction update leaves the device's pdf_present and
\* download_error as they were, a download update leaves the device's
\* predicates, extraction_error and ocr_error as they were, and neither
\* touches the entry of any other device.
C7_FieldGroupsIndependent ==
    [][/\ db_op' = "extraction" =>
            /\ EntryView(db_devices', db_k').pdf_present
                 = EntryView(db_devices, db_k').pdf_present
            /\ EntryView(db_devices', db_k').errors.download_error
                 = EntryView(db_devices, db_k').errors.download_error
       /\ db_op' = "download" =>
            /\ EntryView(db_devices', db_k').predicates
                 = EntryView(db_devices, db_k').predicates
            /\ EntryView(db_devices', db_k').errors.extraction_error
                 = EntryView(db_devices, db_k').errors.extraction_error
            /\ EntryView(db_devices', db_k').errors.ocr_error
                 = EntryView(db_devices, db_k').errors.ocr_error
       /\ db_op' \in {"extraction", "download"} =>
            \A d \in DbDevices \ {db_k'} :
                /\ has_key(db_devices', d) <=> has_key(db_devices, d)
                /\ has_key(db_devices, d) => db_devices'[d] = db_devices[d]
      ]_vars

\* an extraction that failed has just been recorded for a device whose
\* download is recorded (PDF present, an earlier download error kept), while
\* the other device has an entry with predicates
C7_Witness ==
    /\ db_op = "extraction"
    /\ has_key(db_devices, db_k)
    /\ db_devices[db_k].pdf_present
    /\ db_devices[db_k].errors.download_error # None
    /\ db_devices[db_k].errors.extraction_error # None
    /\ \E d \in DbDevices \ {db_k} :
         /\ has_key(db_devices, d)
         /\ db_devices[d].predicates # <<>>

\* C26: an extraction update that applies a result carrying an error leaves
\* the predicates, extraction method, text length, chars per page and page
\* count that the device's entry already records as they are.
C26_ErrorKeepsExtractionData ==
    [][db_op' = "extraction" =>
         \A r \in ExtractionResults(db_k') :
             ( /\ Truthy(r.error)
               /\ has_key(db_devices, db_k')
               /\ db_devices' = update_db_from_result(db_devices, r) )
             => /\ db_devices'[db_k'].predicates = db_devices[db_k'].predicates
                /\ db_devices'[db_k'].extraction_method
                     = db_devices[db_k'].extraction_method
                /\ db_devices'[db_k'].text_length = db_devices[db_k'].text_length
                /\ db_devices'[db_k'].chars_per_page
                     = db_devices[db_k'].chars_per_page
                /\ db_devices'[db_k'].page_count = db_devices[db_k'].page_count]_vars

DbNext ==
    \/ DownloadUpdate
    \/ ExtractionUpdate
    \/ VerifyDevice

SpecDb == DbInit /\ [][DbNext]_vars

\* ------------------------------------------------------------------------
\* The store files: lib.get_db / lib.save_db (devices.json),
\* db.load_db / db.save_db (db.json), lib.get_predicates / lib.save_predicates
\* (predicates.json)
\* ------------------------------------------------------------------------
\* A JSON store file is the sequence of its "identifier: entry" members in
\* file order, and is closed once the text is a complete JSON document.  A
\* dict in memory is the sequence of its items in insertion order.  Of an
\* entry the model keeps the two lists of PredicateState (for db.json and
\* predicates.json: the predicates list, and no malformed list).

\* lib.py is checked in with two conflict regions (lines 42-57 and 73-95);
\* a build keeps one side of them.
Builds == {"HEAD", "master"}

StoreRoutines == {"lib.save_db", "db.save_db", "lib.save_predicates"}

StoreKeys == {"K000001", "K000002"}

\* a list element that is not a JSON string (the number 123)
NotAString == "<123>"

ValueLists == {<<>>, <<"K000008", "K000009">>, <<"K000009", "K000008">>}

MalformedLists == {<<>>, <<"K9 9999", "K1 1111">>}

\* the order Python gives the strings of the model (str.__lt__)
str_rank(s) ==
    CASE s = "DEN200001" -> 0
      [] s = "K000001" -> 1
      [] s = "K000002" -> 2
      [] s = "K000008" -> 8
      [] s = "K000009" -> 9
      [] s = "K1 1111" -> 10
      [] s = "K250003" -> 11
      [] s = "K9 9999" -> 12
      [] s = "K900001" -> 13
      [] s = "K900002" -> 14

RECURSIVE sorted(_)
\* sorted(values) for a list of strings (stable, ascending)
sorted(values) ==
    IF values = <<>>
      THEN <<>>
      ELSE LET rest == sorted(Tail(values))
               smaller == SelectSeq(rest, LAMBDA v : str_rank(v) < str_rank(Head(values)))
               others == SelectSeq(rest, LAMBDA v : str_rank(v) >= str_rank(Head(values))) IN
           smaller \o <<Head(values)>> \o others

RECURSIVE sorted_items(_)
\* dict(sorted(devices.items(), key=lambda x: x[0]))
sorted_items(devices) ==
    IF devices = <<>>
      THEN <<>>
      ELSE LET rest == sorted_items(Tail(devices))
               smaller == SelectSeq(rest, LAMBDA e : str_rank(e.key) < str_rank(Head(devices).key))
               others == SelectSeq(rest, LAMBDA e : str_rank(e.key) >= str_rank(Head(devices).key)) IN
           smaller \o <<Head(devices)>> \o others

\* list[str] validation of one list (pydantic does not turn a number into a str)
is_str_list(values) == \A i \in 1..Len(values) : values[i] # NotAString

\* validation of one entry: lib.DeviceEntry.preds (values, malformed) and
\* db.DeviceEntry.predicates
entry_valid(entry) == is_str_list(entry.values) /\ is_str_list(entry.malformed)

\* Database.model_validate / DeviceDatabase.model_validate: one
\* ValidationError for the whole document when any entry is invalid
model_validate(entries) ==
    IF \A i \in 1..Len(entries) : entry_valid(entries[i])
      THEN [status |-> "ok", devices |-> entries]
      ELSE [status |-> "ValidationError", devices |-> <<>>]

\* lib.py:81-84 / 89-92
get_db(file) ==
    IF ~file.exists
      THEN [status |-> "FileNotFoundError", devices |-> <<>>]
      ELSE IF ~file.closed
             THEN [status |-> "JSONDecodeError", devices |-> <<>>]
             ELSE model_validate(file.entries)

\* db.py:56-63
load_db(file) ==
    IF ~file.exists
      THEN [status |-> "ok", devices |-> <<>>]
      ELSE IF ~file.closed
             THEN [status |-> "JSONDecodeError", devices |-> <<>>]
             ELSE model_validate(file.entries)

\* lib.py:104-108
get_predicates(file) ==
    IF ~file.exists
      THEN [status |-> "ok", devices |-> <<>>]
      ELSE IF ~file.closed
             THEN [status |-> "JSONDecodeError", devices |-> <<>>]
             ELSE [status |-> "ok", devices |-> file.entries]

\* PredicateState serialization: the field serializers of the HEAD side sort
\* both lists, the master side has none
serialize_entry(entry, side) ==
    IF side = "HEAD"
      THEN [entry EXCEPT !.values = sorted(entry.values),
                         !.malformed = sorted(entry.malformed)]
      ELSE entry

\* db.model_dump_json(indent=2) of a lib.Database
model_dump_json(devices, side) ==
    LET ordered == IF side = "HEAD" THEN sorted_items(devices) ELSE devices IN
    [i \in 1..Len(ordered) |-> serialize_entry(ordered[i], side)]

\* is the save routine one that writes a temporary file and renames it
writes_tmp(routine) == routine \in {"lib.save_db", "lib.save_predicates"}

\* the entries a save routine writes, from the dict it is given:
\* lib.py:98-100, db.py:80-81, lib.py:115-117
serialize(routine, devices, side) ==
    CASE routine = "lib.save_db" -> model_dump_json(sorted_items(devices), side)
      [] routine = "db.save_db" -> devices
      [] routine = "lib.save_predicates" -> sorted_items(devices)

\* db.devices after the save routine has run (lib.py:98 rebinds db.devices)
devices_after_save(routine, devices) ==
    IF routine = "lib.save_db" THEN sorted_items(devices) ELSE devices

\* the loader that goes with a save routine
load(routine, file) ==
    CASE routine = "lib.save_db" -> get_db(file)
      [] routine = "db.save_db" -> load_db(file)
      [] routine = "lib.save_predicates" -> get_predicates(file)

\* the entries a stored member can hold: valid ones, and one whose list holds
\* a number; only devices.json has a malformed list
StoreEntries(routine, key) ==
    {[key |-> key, values |-> v, malformed |-> m] :
        v \in ValueLists,
        m \in IF routine = "lib.save_db" THEN MalformedLists ELSE {<<>>}}
    \cup {[key |-> key, values |-> <<NotAString>>, malformed |-> <<>>]}

\* complete JSON documents in any key order
StoredDocuments(routine) ==
    {<<>>}
    \cup UNION {{<<e>> : e \in StoreEntries(routine, k)} : k \in StoreKeys}
    \cup UNION {{<<e1, e2>> : e1 \in StoreEntries(routine, k1),
                              e2 \in StoreEntries(routine, k2)} :
                   <<k1, k2>> \in {kk \in StoreKeys \X StoreKeys : kk[1] # kk[2]}}

Complete(entries) == [exists |-> TRUE, entries |-> entries, closed |-> TRUE]

\* open(path, "w"): the file exists and is empty
Opened == [exists |-> TRUE, entries |-> <<>>, closed |-> FALSE]

StoreInit ==
    /\ build \in Builds
    /\ store_routine \in StoreRoutines
    /\ store_file \in {NoFile} \cup {Complete(d) : d \in StoredDocuments(store_routine)}
    /\ tmp_file = NoFile
    /\ mem_db = NotLoaded
    /\ store_pc = "start"
    /\ save_text = <<>>
    /\ prev_file = NoFile
    /\ loaded_from = NoFile
    /\ roundtrip = FALSE
    /\ StoreRest

\* get_db() / load_db(path) / get_predicates() at the start of a process
LoadStore ==
    /\ store_pc = "start"
    /\ mem_db' = load(store_routine, store_file)
    /\ store_pc' = IF mem_db'.status = "ok" THEN "loaded" ELSE "failed"
    /\ loaded_from' = store_file
    /\ roundtrip' = (mem_db'.status = "ok")
    /\ UNCHANGED <<build, store_routine, store_file, tmp_file, save_text, prev_file>>
    /\ StoreFrame

\* dict[key] = value on a dict held as its items in insertion order
dict_set(devices, entry) ==
    IF \E i \in 1..Len(devices) : devices[i].key = entry.key
      THEN [i \in 1..Len(devices) |->
               IF devices[i].key = entry.key THEN entry ELSE devices[i]]
      ELSE Append(devices, entry)

\* the process sets the lists of one device in memory (db.py:154-155 through
\* run_pipeline.py:68-86; migrate.py:112-139 for lib.Database)
UpdateInMemory ==
    /\ store_pc \in {"loaded", "saved"}
    /\ \E k \in StoreKeys : \E v \in ValueLists :
         mem_db' = [mem_db EXCEPT !.devices =
                       dict_set(@, [key |-> k, values |-> v, malformed |-> <<>>])]
    /\ store_pc' = "loaded"
    /\ roundtrip' = FALSE
    /\ loaded_from' = NoFile
    /\ UNCHANGED <<build, store_routine, store_file, tmp_file, save_text, prev_file>>
    /\ StoreFrame

\* the save routine up to and including the open() of the file it writes:
\* lib.py:98-100 (tmp.write_text opens tmp), db.py:69-80 (open(path, "w")),
\* lib.py:115-117
SaveBegin ==
    /\ store_pc \in {"loaded", "saved"}
    /\ save_text' = serialize(store_routine, mem_db.devices, build)
    /\ mem_db' = [mem_db EXCEPT !.devices = devices_after_save(store_routine, @)]
    /\ prev_file' = store_file
    /\ IF writes_tmp(store_routine)
         THEN tmp_file' = Opened /\ UNCHANGED store_file
         ELSE store_file' = Opened /\ UNCHANGED tmp_file
    /\ store_pc' = "writing"
    /\ UNCHANGED <<build, store_routine, loaded_from, roundtrip>>
    /\ StoreFrame

\* the next part of the text reaches the open file
WriteChunk ==
    /\ store_pc = "writing"
    /\ IF writes_tmp(store_routine)
         THEN /\ Len(tmp_file.entries) < Len(save_text)
              /\ tmp_file' = [tmp_file EXCEPT !.entries =
                                 Append(@, save_text[Len(@) + 1])]
              /\ UNCHANGED store_file
         ELSE /\ Len(store_file.entries) < Len(save_text)
              /\ store_file' = [store_file EXCEPT !.entries =
                                   Append(@, save_text[Len(@) + 1])]
              /\ UNCHANGED tmp_file
    /\ UNCHANGED <<build, store_routine, mem_db, store_pc, save_text, prev_file,
                   loaded_from, roundtrip>>
    /\ StoreFrame

\* the last part of the text is written and the file closed; db.save_db
\* returns here (db.py:80-81), the other two go on to tmp.replace(path)
WriteClose ==
    /\ store_pc = "writing"
    /\ IF writes_tmp(store_routine)
         THEN /\ Len(tmp_file.entries) = Len(save_text)
              /\ tmp_file' = [tmp_file EXCEPT !.closed = TRUE]
              /\ store_pc' = "replace"
              /\ UNCHANGED store_file
         ELSE /\ Len(store_file.entries) = Len(save_text)
              /\ store_file' = [store_file EXCEPT !.closed = TRUE]
              /\ store_pc' = "saved"
              /\ UNCHANGED tmp_file
    /\ UNCHANGED <<build, store_routine, mem_db, save_text, prev_file,
                   loaded_from, roundtrip>>
    /\ StoreFrame

\* tmp.replace(path) (lib.py:101, lib.py:118): one rename
ReplaceTmp ==
    /\ store_pc = "replace"
    /\ store_file' = tmp_file
    /\ tmp_file' = NoFile
    /\ store_pc' = "saved"
    /\ UNCHANGED <<build, store_routine, mem_db, save_text, prev_file,
                   loaded_from, roundtrip>>
    /\ StoreFrame

\* the process dies while a save routine is running
Crash ==
    /\ store_pc \in {"writing", "replace"}
    /\ store_pc' = "crashed"
    /\ UNCHANGED <<build, store_routine, store_file, tmp_file, mem_db, save_text,
                   prev_file, loaded_from, roundtrip>>
    /\ StoreFrame

\* the next process starts on the files the crashed one left
Restart ==
    /\ store_pc = "crashed"
    /\ store_pc' = "start"
    /\ mem_db' = NotLoaded
    /\ save_text' = <<>>
    /\ prev_file' = NoFile
    /\ loaded_from' = NoFile
    /\ roundtrip' = FALSE
    /\ UNCHANGED <<build, store_routine, store_file, tmp_file>>
    /\ StoreFrame

\* ---- properties of the store files

\* C8: after a crash during a save (of any of the three save routines) the
\* file at the store path is the one that was there when the save began or
\* the complete text the save was writing.
C8_CrashLeavesSnapshot ==
    store_pc = "crashed" =>
        \/ store_file = prev_file
        \/ store_file = Complete(save_text)

\* C9: when a valid devices.json has been loaded with get_db and saved with
\* save_db with no change in between, the file holds the members of the
\* original in ascending key order, each entry as it was (the values list in
\* its original element order).
C9_RoundTrip ==
    (store_routine = "lib.save_db" /\ store_pc = "saved" /\ roundtrip)
        => store_file = Complete(sorted_items(loaded_from.entries))

\* number of entries of a document that fail validation
invalid_count(entries) ==
    Cardinality({i \in 1..Len(entries) : ~entry_valid(entries[i])})

\* C10: when get_db or load_db has run on a complete document with exactly
\* one invalid entry, it has returned a database that holds exactly the
\* valid entries.
C10_InvalidEntryQuarantined ==
    (/\ store_routine \in {"lib.save_db", "db.save_db"}
     /\ store_pc \in {"loaded", "failed"}
     /\ loaded_from.exists /\ loaded_from.closed
     /\ invalid_count(loaded_from.entries) = 1)
        => /\ mem_db.status = "ok"
           /\ mem_db.devices = SelectSeq(loaded_from.entries, entry_valid)

StoreNext ==
    \/ LoadStore
    \/ UpdateInMemory
    \/ SaveBegin
    \/ WriteChunk
    \/ WriteClose
    \/ ReplaceTmp
    \/ Crash
    \/ Restart

SpecStore == StoreInit /\ [][StoreNext]_vars

\* ------------------------------------------------------------------------
\* Text extraction: extract_k_numbers (three modules),
\* find_malformed_k_numbers and process_single_pdf (pipeline/extract.py)
\* ------------------------------------------------------------------------
\* A text is the sequence of its characters; an identifier found in it is the
\* sequence of characters matched.

MaxFragments == 3      \* most fragments a PDF text is made of
MaxOcrFragments == 2   \* most fragments an OCR text is made of

\* the stem of the PDF being processed
PdfStem == <<"K", "0", "0", "0", "0", "0", "1">>

\* pieces the texts of the model are put together from
Fragments ==
    {PdfStem,
     <<"K", "0", "0", "0", "0", "0", "2">>,
     <<"K", "0", "0", "0", "0", "0", "3">>,
     <<"K", "1", "2", " ", "3", "4", "5", "6">>,
     <<"K", "1", " ", "2", " ", "3", " ", "4">>,
     <<"x">>}

OcrFragments ==
    {<<"K", "0", "0", "0", "0", "0", "2">>,
     <<"K", "1", "2", " ", "3", "4", "5", "6">>,
     <<"x", "x", "x", "x", "x", "x", "x", "x", "x">>}

RECURSIVE TextsOf(_, _)
\* the texts made of at most n fragments
TextsOf(fragments, n) ==
    IF n = 0
      THEN {<<>>}
      ELSE LET shorter == TextsOf(fragments, n - 1) IN
           shorter \cup {s \o f : s \in shorter, f \in fragments}

\* \d and \s of the re module, on the characters of the model
is_digit(c) == c \in {"0", "1", "2", "3", "4", "5", "6", "7", "8", "9"}
is_space(c) == c \in {" ", "\n", "\t"}

\* K_NUMBER_PATTERN = r"K\d{6}" matches at position i
k_number_at(text, i) ==
    /\ i + 6 <= Len(text)
    /\ text[i] = "K"
    /\ \A j \in (i + 1)..(i + 6) : is_digit(text[j])

RECURSIVE k_findall(_, _)
\* K_NUMBER_PATTERN.findall(text), scanning from position i
k_findall(text, i) ==
    IF i > Len(text)
      THEN <<>>
      ELSE IF k_number_at(text, i)
             THEN <<SubSeq(text, i, i + 6)>> \o k_findall(text, i + 7)
             ELSE k_findall(text, i + 1)

\* K_NUMBER_PATTERN.fullmatch(s)
k_fullmatch(s) == Len(s) = 7 /\ k_number_at(s, 1)

RECURSIVE unique_in_order(_)
\* the seen/unique loop of extractor.py:50-57 and extract_predicates.py:33-39
unique_in_order(matches) ==
    IF matches = <<>>
      THEN <<>>
      ELSE LET front == unique_in_order(SubSeq(matches, 1, Len(matches) - 1))
               m == matches[Len(matches)] IN
           IF \E i \in 1..Len(front) : front[i] = m THEN front ELSE Append(front, m)

\* list(set(matches)): the elements once each, in the iteration order of a
\* set of str, which depends on the hash seed of the process
list_of_set(matches) ==
    LET elems == {matches[i] : i \in 1..Len(matches)} IN
    {s \in [1..Cardinality(elems) -> elems] :
        \A i, j \in 1..Cardinality(elems) : i # j => s[i] # s[j]}

ExtractModules == {"pipeline.extract", "extractor", "extract_predicates"}

\* the lists extract_k_numbers(text) of a module can return:
\* pipeline/extract.py:104-107, extractor.py:47-57, extract_predicates.py:30-39
extract_k_numbers(impl, text) ==
    IF impl = "pipeline.extract"
      THEN list_of_set(k_findall(text, 1))
      ELSE {unique_in_order(k_findall(text, 1))}

RECURSIVE run_length(_, _)
\* number of consecutive [\s\d] characters from position i on
run_length(text, i) ==
    IF i > Len(text) \/ ~(is_digit(text[i]) \/ is_space(text[i]))
      THEN 0
      ELSE 1 + run_length(text, i + 1)

RECURSIVE skip_spaces(_, _)
\* the position after \s* has matched from position i on
skip_spaces(text, i) ==
    IF i <= Len(text) /\ is_space(text[i]) THEN skip_spaces(text, i + 1) ELSE i

\* MALFORMED_PATTERN = r"K\s*\d[\s\d]{5,7}": the last position of the match
\* that starts at i, 0 when there is none.  \s* takes all the spaces (a
\* shorter \s* would leave a space where \d must match) and the greedy
\* {5,7} takes up to 7 characters.
malformed_end(text, i) ==
    IF text[i] # "K"
      THEN 0
      ELSE LET d == skip_spaces(text, i + 1) IN
           IF d > Len(text) \/ ~is_digit(text[d])
             THEN 0
             ELSE LET run == run_length(text, d + 1) IN
                  IF run < 5 THEN 0 ELSE d + (IF run > 7 THEN 7 ELSE run)

RECURSIVE malformed_findall(_, _)
\* MALFORMED_PATTERN.findall(text), scanning from position i
malformed_findall(text, i) ==
    IF i > Len(text)
      THEN <<>>
      ELSE LET e == malformed_end(text, i) IN
           IF e > 0
             THEN <<SubSeq(text, i, e)>> \o malformed_findall(text, e + 1)
             ELSE malformed_findall(text, i + 1)

\* re.sub(r"\s", "", m)
normalized(m) == SelectSeq(m, LAMBDA c : ~is_space(c))

RECURSIVE strip(_)
\* m.strip(), for a match (which starts with K)
strip(m) ==
    IF m # <<>> /\ is_space(m[Len(m)]) THEN strip(SubSeq(m, 1, Len(m) - 1)) ELSE m

\* pipeline/extract.py:110-119
find_malformed_k_numbers(text) ==
    LET matches == malformed_findall(text, 1)
        kept == SelectSeq(matches, LAMBDA m : ~k_fullmatch(normalized(m))) IN
    [i \in 1..Len(kept) |-> strip(kept[i])]

\* pipeline/extract.py:91-100, on chars_per_page held in tenths
categorize_text_density(chars_per_page) ==
    IF chars_per_page >= 5000
      THEN "text-rich"
      ELSE IF chars_per_page >= 500 THEN "sparse" ELSE "empty"

\* text_length / page_count if page_count > 0 else 0.0, in tenths (exact for
\* the page counts of the model, so that round(chars_per_page, 1) keeps it)
chars_per_page_of(text_length, page_count) ==
    IF page_count > 0 THEN (10 * text_length) \div page_count ELSE 0

PageCounts == {0, 1, 2}

\* pipeline/extract.py:122-167: the reasons of the flags, in order
check_suspicious(predicates, chars_per_page, category, malformed) ==
    (IF predicates = <<>> /\ chars_per_page > 1000 THEN <<"no_predicates">> ELSE <<>>)
    \o (IF Len(predicates) >= 10 THEN <<"excessive_predicates">> ELSE <<>>)
    \o (IF category = "empty" THEN <<"sparse_text">> ELSE <<>>)
    \o (IF malformed # <<>> THEN <<"malformed_knumber">> ELSE <<>>)

\* [k for k in all_k_numbers if k != k_number]
without_self(all_k_numbers, k_number) ==
    SelectSeq(all_k_numbers, LAMBDA k : k # k_number)

\* the ExtractionResult of the except branch (pipeline/extract.py:264-282)
error_result(k_number, message, extraction_method, ocr_attempted, ocr_error) ==
    [k_number |-> k_number,
     text_metadata |-> [page_count |-> 0, text_length |-> 0,
                        chars_per_page |-> 0, category |-> "error"],
     predicates |-> [predicates |-> <<>>, all_k_numbers_found |-> <<>>,
                     malformed_matches |-> <<>>],
     flags |-> <<>>,
     error |-> message,
     extraction_method |-> extraction_method,
     ocr_attempted |-> ocr_attempted,
     ocr_error |-> ocr_error]

\* the ExtractionResult of the try branch (pipeline/extract.py:238-262)
ok_result(k_number, text, page_count, all_k_numbers, malformed, extraction_method, ocr_error) ==
    LET chars_per_page == chars_per_page_of(Len(text), page_count)
        category == categorize_text_density(chars_per_page)
        predicates == without_self(all_k_numbers, k_number) IN
    [k_number |-> k_number,
     text_metadata |-> [page_count |-> page_count, text_length |-> Len(text),
                        chars_per_page |-> chars_per_page, category |-> category],
     predicates |-> [predicates |-> predicates,
                     all_k_numbers_found |-> all_k_numbers,
                     malformed_matches |-> malformed],
     flags |-> check_suspicious(predicates, chars_per_page, category, malformed),
     error |-> None,
     extraction_method |-> extraction_method,
     ocr_attempted |-> TRUE,
     ocr_error |-> ocr_error]

\* str(e) of the exceptions of the model
CannotOpen == "FileDataError: cannot open"
MalformedUnbound == "UnboundLocalError: malformed"

\* pipeline/extract.py:193-282: the (result, text file) pairs the call can end
\* with.  The local variable malformed is bound at line 231 only, inside the
\* OCR branch that replaces the text; line 247 reads it on every path.
process_single_pdf(k_number, readable, text, page_count, use_ocr_fallback, ocr, text_file) ==
    IF ~readable
      THEN {[result |-> error_result(k_number, CannotOpen, "none", FALSE, None),
             text_file |-> text_file]}
      ELSE UNION {
        LET predicates == without_self(all_k_numbers, k_number) IN
        IF use_ocr_fallback /\ predicates = <<>>
          THEN IF ~Truthy(ocr.error) /\ Len(ocr.text) > Len(text)
                 THEN {[result |-> ok_result(k_number, ocr.text, page_count, ocr_k_numbers, find_malformed_k_numbers(ocr.text), "ocr", ocr.error),
                        text_file |-> ocr.text] :
                          ocr_k_numbers \in extract_k_numbers("pipeline.extract", ocr.text)}
                 ELSE {[result |-> error_result(k_number, MalformedUnbound, "pymupdf", TRUE, ocr.error),
                        text_file |-> text]}
          ELSE {[result |-> error_result(k_number, MalformedUnbound, "pymupdf", FALSE, None),
                 text_file |-> text]}
        : all_k_numbers \in extract_k_numbers("pipeline.extract", text)}

\* what extract_with_ocr can return (pipeline/extract.py:175-190)
OcrOutcomes ==
    {[text |-> s, error |-> None] : s \in TextsOf(OcrFragments, MaxOcrFragments)}
    \cup {[text |-> <<>>, error |-> "ollama unreachable"]}

ExtractInit ==
    /\ ex_pc = "start"
    /\ ex_text \in TextsOf(Fragments, MaxFragments)
    /\ ex_readable \in BOOLEAN
    /\ ex_page_count \in IF ex_text = <<>> THEN PageCounts \ {2} ELSE PageCounts \ {0}
    /\ ex_use_ocr \in BOOLEAN
    /\ ex_ocr \in OcrOutcomes
    /\ ex_impl = "none"
    /\ ex_valid = <<>>
    /\ ex_malformed = <<>>
    /\ ex_result = NotRun
    /\ ex_text_file = NotRun
    /\ ExtractRest

\* extract_k_numbers(text) of one of the three modules
ExtractKNumbers ==
    /\ ex_pc = "start"
    /\ \E impl \in ExtractModules :
         /\ ex_impl' = impl
         /\ ex_valid' \in extract_k_numbers(impl, ex_text)
    /\ ex_pc' = "extract_k_numbers"
    /\ UNCHANGED <<ex_text, ex_readable, ex_page_count, ex_use_ocr, ex_ocr,
                   ex_malformed, ex_result, ex_text_file>>
    /\ ExtractFrame

\* find_malformed_k_numbers(text)
FindMalformed ==
    /\ ex_pc = "start"
    /\ ex_malformed' = find_malformed_k_numbers(ex_text)
    /\ ex_pc' = "find_malformed_k_numbers"
    /\ UNCHANGED <<ex_text, ex_readable, ex_page_count, ex_use_ocr, ex_ocr,
                   ex_impl, ex_valid, ex_result, ex_text_file>>
    /\ ExtractFrame

\* process_single_pdf(pdf_path, text_dir, use_ocr_fallback)
ProcessSinglePdf ==
    /\ ex_pc = "start"
    /\ \E out \in process_single_pdf(PdfStem, ex_readable, ex_text, ex_page_count, ex_use_ocr, ex_ocr, ex_text_file) :
         /\ ex_result' = out.result
         /\ ex_text_file' = out.text_file
    /\ ex_pc' = "process_single_pdf"
    /\ UNCHANGED <<ex_text, ex_readable, ex_page_count, ex_use_ocr, ex_ocr,
                   ex_impl, ex_valid, ex_malformed>>
    /\ ExtractFrame

\* ---- properties of text extraction

\* the position of the first match equal to m
first_occurrence(matches, m) ==
    CHOOSE i \in 1..Len(matches) :
        matches[i] = m /\ \A j \in 1..(i - 1) : matches[j] # m

\* C11: the list extract_k_numbers returns (in each of the three modules)
\* holds exactly the identifiers matched in the text, each once, in the order
\* of their first occurrence.
C11_FirstOccurrenceOrder ==
    ex_pc = "extract_k_numbers" =>
        LET matches == k_findall(ex_text, 1) IN
        /\ {ex_valid[i] : i \in 1..Len(ex_valid)} = {matches[i] : i \in 1..Len(matches)}
        /\ \A i, j \in 1..Len(ex_valid) :
             i < j => first_occurrence(matches, ex_valid[i])
                        < first_occurrence(matches, ex_valid[j])

\* a match of the malformed pattern that has whitespace between its digits
has_inner_space(m) == \E i \in 1..Len(strip(m)) : is_space(m[i])

\* C12: every candidate of the text made of K and digits with whitespace in
\* between is in the list find_malformed_k_numbers returns, and is in no
\* list extract_k_numbers returns.
C12_SpacedCandidateReported ==
    ex_pc = "find_malformed_k_numbers" =>
        LET matches == malformed_findall(ex_text, 1) IN
        \A n \in 1..Len(matches) :
            has_inner_space(matches[n]) =>
                /\ \E i \in 1..Len(ex_malformed) : ex_malformed[i] = strip(matches[n])
                /\ \A impl \in ExtractModules :
                   \A valid \in extract_k_numbers(impl, ex_text) :
                   \A i \in 1..Len(valid) : valid[i] # strip(matches[n])

\* C13: when the PDF can be read, the result of process_single_pdf has no
\* error, whether or not the OCR fallback is taken.
C13_ReadableNeverFails ==
    (ex_pc = "process_single_pdf" /\ ex_readable) => ex_result.error = None

\* pipeline/extract.py:23 and 170-172, on chars_per_page held in tenths
OCR_FALLBACK_THRESHOLD == 50
should_use_ocr(chars_per_page) == chars_per_page < 10 * OCR_FALLBACK_THRESHOLD

\* C27: process_single_pdf attempts the OCR fallback exactly when the
\* fallback is enabled and the density of the directly extracted text is
\* below the OCR threshold, whether or not that text gave predicates.
C27_OcrExactlyWhenSparse ==
    (ex_pc = "process_single_pdf" /\ ex_readable) =>
        (ex_result.ocr_attempted
           <=> ( /\ ex_use_ocr
                 /\ should_use_ocr(chars_per_page_of(Len(ex_text), ex_page_count)) ))

ExtractNext ==
    \/ ExtractKNumbers
    \/ FindMalformed
    \/ ProcessSinglePdf

SpecExtract == ExtractInit /\ [][ExtractNext]_vars

\* ------------------------------------------------------------------------
\* The device graph: build_graph, export_graph, export_cytoscape
\* (pipeline/graph.py; build_graph.py has the same build_graph)
\* ------------------------------------------------------------------------
\* A node is kept as its key (the DeviceNode fields are copied from the FDA
\* record and nothing reads them); an Edge is [source, target].

MaxTargets == 2     \* longest predicate list of a device

GraphIds == {"K000001", "K000002", "K000009"}
GraphSources == {"K000001", "K000002"}

RECURSIVE TargetLists(_)
\* the predicate lists of at most n identifiers
TargetLists(n) ==
    IF n = 0
      THEN {<<>>}
      ELSE LET shorter == TargetLists(n - 1) IN
           shorter \cup {Append(s, k) : s \in shorter, k \in GraphIds}

\* the predicate maps given to build_graph, as items in dict order
PredicateMaps ==
    LET lists == TargetLists(MaxTargets) IN
    {<<>>}
    \cup {<<[source |-> s, targets |-> l]>> : s \in GraphSources, l \in lists}
    \cup {<<[source |-> ss[1], targets |-> l1], [source |-> ss[2], targets |-> l2]>> :
             ss \in {p \in GraphSources \X GraphSources : p[1] # p[2]},
             l1 \in lists, l2 \in lists}

\* the edges of one item: pipeline/graph.py:190-191
edges_of(item) ==
    [i \in 1..Len(item.targets) |-> [source |-> item.source, target |-> item.targets[i]]]

RECURSIVE all_edges(_)
\* the loop of pipeline/graph.py:189-191 over predicates.items()
all_edges(predicates) ==
    IF predicates = <<>>
      THEN <<>>
      ELSE edges_of(Head(predicates)) \o all_edges(Tail(predicates))

\* orphan_count: pipeline/graph.py:192-193
orphan_count_of(edges, devices) ==
    Cardinality({i \in 1..Len(edges) : edges[i].target \notin devices})

\* pipeline/graph.py:162-208 and build_graph.py:131-169
build_graph(devices, predicates) ==
    LET nodes == devices
        edges == all_edges(predicates) IN
    [metadata |-> [total_nodes |-> Cardinality(nodes),
                   total_edges |-> Len(edges),
                   nodes_with_predicates |-> Len(predicates),
                   nodes_without_predicates |-> Cardinality(nodes) - Len(predicates),
                   orphan_predicates |-> orphan_count_of(edges, devices)],
     nodes |-> nodes,
     edges |-> edges]

\* a variant of valid_edges that looks at the source only
valid_edges_source_only(edges, node_ids) ==
    SelectSeq(edges, LAMBDA e : e.source \in node_ids)

\* valid_edges of export_cytoscape: pipeline/graph.py:225-227
valid_edges(edges, node_ids) ==
    SelectSeq(edges, LAMBDA e : e.source \in node_ids /\ e.target \in node_ids)

\* the list dumped to bad_edges.json: pipeline/graph.py:233-237
bad_edges(edges, node_ids) ==
    SelectSeq(edges, LAMBDA e : e.source \notin node_ids \/ e.target \notin node_ids)

\* the document export_cytoscape writes: pipeline/graph.py:245-264
cytoscape_of(g) ==
    LET kept == valid_edges(g.edges, g.nodes) IN
    [metadata |-> g.metadata,
     nodes |-> g.nodes,
     edges |-> [i \in 1..Len(kept) |->
                   [id |-> i - 1, source |-> kept[i].source,
                    target |-> kept[i].target, relationship |-> "predicate"]]]

GraphInit ==
    /\ gr_pc = "start"
    /\ fda_devices \in SUBSET GraphIds
    /\ gr_predicates \in PredicateMaps
    /\ graph = NotRun
    /\ graph_json = NotRun
    /\ cytoscape_json = NotRun
    /\ bad_edges_json = NotRun
    /\ GraphRest

\* graph = build_graph(FDA_JSON_PATH, predicates): pipeline/graph.py:286-289
BuildGraph ==
    /\ gr_pc = "start"
    /\ graph' = build_graph(fda_devices, gr_predicates)
    /\ gr_pc' = "built"
    /\ UNCHANGED <<fda_devices, gr_predicates, graph_json, cytoscape_json, bad_edges_json>>
    /\ GraphFrame

\* export_graph(graph, GRAPH_PATH): pipeline/graph.py:211-217
ExportGraph ==
    /\ gr_pc = "built"
    /\ graph_json' = graph
    /\ gr_pc' = "graph_exported"
    /\ UNCHANGED <<fda_devices, gr_predicates, graph, cytoscape_json, bad_edges_json>>
    /\ GraphFrame

\* export_cytoscape(graph, CYTOSCAPE_PATH): pipeline/graph.py:220-270
ExportCytoscape ==
    /\ gr_pc = "graph_exported"
    /\ bad_edges_json' = bad_edges(graph.edges, graph.nodes)
    /\ cytoscape_json' = cytoscape_of(graph)
    /\ gr_pc' = "exported"
    /\ UNCHANGED <<fda_devices, gr_predicates, graph, graph_json>>
    /\ GraphFrame

\* ---- properties of the device graph

\* C14: the graph build_graph returns has no edge from a device to itself,
\* whatever the predicate map holds.
C14_NoSelfLoop ==
    gr_pc # "start" =>
        \A i \in 1..Len(graph.edges) : graph.edges[i].source # graph.edges[i].target

\* C15: the edge list build_graph returns holds each (source, target) pair at
\* most once, and metadata.total_edges is the number of distinct pairs.
C15_EdgesDistinct ==
    gr_pc # "start" =>
        /\ \A i, j \in 1..Len(graph.edges) : i # j => graph.edges[i] # graph.edges[j]
        /\ graph.metadata.total_edges
             = Cardinality({graph.edges[i] : i \in 1..Len(graph.edges)})

\* positions of the edges of g whose target is not a node
OrphanEdges(g) == {i \in 1..Len(g.edges) : g.edges[i].target \notin g.nodes}

\* C16: metadata.orphan_predicates is the number of edges whose target is not
\* a node; each of them is in the edge list of the raw export and none of
\* them is among the edges of the Cytoscape export.
C16_OrphansKeptRawDroppedCytoscape ==
    gr_pc = "exported" =>
        /\ graph.metadata.orphan_predicates = Cardinality(OrphanEdges(graph))
        /\ \A i \in OrphanEdges(graph) :
             /\ \E j \in 1..Len(graph_json.edges) : graph_json.edges[j] = graph.edges[i]
             /\ \A j \in 1..Len(cytoscape_json.edges) :
                  ~(/\ cytoscape_json.edges[j].source = graph.edges[i].source
                    /\ cytoscape_json.edges[j].target = graph.edges[i].target)

\* both exports are written for a graph that has an orphan edge from a node
\* and an edge between two nodes
C16_Witness ==
    /\ gr_pc = "exported"
    /\ \E i \in OrphanEdges(graph) : graph.edges[i].source \in graph.nodes
    /\ graph.metadata.orphan_predicates >= 1
    /\ Len(cytoscape_json.edges) >= 1
    /\ Len(graph_json.edges) > Len(cytoscape_json.edges)

GraphNext ==
    \/ BuildGraph
    \/ ExportGraph
    \/ ExportCytoscape

SpecGraph == GraphInit /\ [][GraphNext]_vars

\* ------------------------------------------------------------------------
\* _find_longest_path_from_node (pipeline/analyze.py:204-226)
\* ------------------------------------------------------------------------
\* The recursion of dfs is kept as the stack of its active calls; a call is
\* [node, path, next], next being the position in successors the for loop
\* looks at next.

\* calls of dfs that can be active at once before Python raises
\* RecursionError (more than the model's graphs can nest)
MaxDepth == 4

PathNodes == {"K000001", "K000002", "K000003"}

\* the lists G.successors(node) can give: the nodes of a subset, in any order
SuccessorLists ==
    UNION {{s \in [1..Cardinality(S) -> S] :
               \A i, j \in 1..Cardinality(S) : i # j => s[i] # s[j]} :
           S \in SUBSET PathNodes}

\* a variant of the test of line 218 that lets every successor through
may_descend_always(succ, path) == TRUE

\* "if succ not in path" (pipeline/analyze.py:218)
may_descend(succ, path) == \A i \in 1..Len(path) : path[i] # succ

\* "if len(path) > len(longest): longest = path[:]" (lines 212-213, 221-222)
longer_of(path, longest) == IF Len(path) > Len(longest) THEN path ELSE longest

PathInit ==
    /\ lp_pc = "start"
    /\ lp_G \in [PathNodes -> SuccessorLists]
    /\ lp_start \in PathNodes
    /\ lp_stack = <<>>
    /\ lp_longest = <<>>
    /\ lp_result = <<>>
    /\ PathRest

\* lines 206-207 and the call dfs(start_node, [start_node]) of line 225
CallDfs ==
    /\ lp_pc = "start"
    /\ lp_longest' = <<lp_start>>
    /\ lp_stack' = <<[node |-> lp_start, path |-> <<lp_start>>, next |-> 1]>>
    /\ lp_pc' = "dfs"
    /\ UNCHANGED <<lp_G, lp_start, lp_result>>
    /\ PathFrame

\* the innermost call has no successors: lines 211-214
LeafReturn ==
    /\ lp_pc = "dfs"
    /\ lp_stack # <<>>
    /\ LET call == lp_stack[Len(lp_stack)] IN
         /\ lp_G[call.node] = <<>>
         /\ lp_longest' = longer_of(call.path, lp_longest)
    /\ lp_stack' = SubSeq(lp_stack, 1, Len(lp_stack) - 1)
    /\ UNCHANGED <<lp_pc, lp_G, lp_start, lp_result>>
    /\ PathFrame

\* one turn of the for loop of the innermost call: lines 217-219
VisitSuccessor ==
    /\ lp_pc = "dfs"
    /\ lp_stack # <<>>
    /\ LET depth == Len(lp_stack)
           call == lp_stack[depth]
           successors == lp_G[call.node] IN
         /\ call.next <= Len(successors)
         /\ LET succ == successors[call.next]
                advanced == [lp_stack EXCEPT ![depth].next = @ + 1] IN
            IF may_descend(succ, call.path)
              THEN IF depth < MaxDepth
                     THEN /\ lp_stack' = Append(advanced,
                                 [node |-> succ, path |-> Append(call.path, succ),
                                  next |-> 1])
                          /\ UNCHANGED lp_pc
                     ELSE /\ lp_pc' = "RecursionError"
                          /\ UNCHANGED lp_stack
              ELSE /\ lp_stack' = advanced
                   /\ UNCHANGED lp_pc
    /\ UNCHANGED <<lp_G, lp_start, lp_longest, lp_result>>
    /\ PathFrame

\* the for loop of the innermost call is over: lines 221-223
LoopReturn ==
    /\ lp_pc = "dfs"
    /\ lp_stack # <<>>
    /\ LET call == lp_stack[Len(lp_stack)] IN
         /\ lp_G[call.node] # <<>>
         /\ call.next > Len(lp_G[call.node])
         /\ lp_longest' = longer_of(call.path, lp_longest)
    /\ lp_stack' = SubSeq(lp_stack, 1, Len(lp_stack) - 1)
    /\ UNCHANGED <<lp_pc, lp_G, lp_start, lp_result>>
    /\ PathFrame

\* "return longest" (line 226)
ReturnLongest ==
    /\ lp_pc = "dfs"
    /\ lp_stack = <<>>
    /\ lp_result' = lp_longest
    /\ lp_pc' = "done"
    /\ UNCHANGED <<lp_G, lp_start, lp_stack, lp_longest>>
    /\ PathFrame

\* ---- properties of the longest path search

\* a list starts at start, follows edges of G and holds no node twice
IsSimplePathFrom(path, start) ==
    /\ Len(path) >= 1
    /\ path[1] = start
    /\ \A i \in 1..(Len(path) - 1) :
         \E j \in 1..Len(lp_G[path[i]]) : lp_G[path[i]][j] = path[i + 1]
    /\ \A i, j \in 1..Len(path) : i # j => path[i] # path[j]

is_root(node) ==
    \A n \in PathNodes : \A j \in 1..Len(lp_G[n]) : lp_G[n][j] # node

\* every list of nodes that can be a simple path of the graph
CandidatePaths ==
    UNION {[1..n -> PathNodes] : n \in 1..Cardinality(PathNodes)}

\* no simple path from the start node is longer than the returned chain
result_is_longest ==
    \A p \in CandidatePaths :
        IsSimplePathFrom(p, lp_start) => Len(p) <= Len(lp_result)

\* C29: for a root node of any graph, the chain _find_longest_path_from_node
\* returns is as long as the longest simple path from that root and its
\* last node is a leaf (out-degree 0).
C29_LongestPathToLeaf ==
    (lp_pc = "done" /\ is_root(lp_start)) =>
        /\ result_is_longest
        /\ lp_G[lp_result[Len(lp_result)]] = <<>>

PathNext ==
    \/ CallDfs
    \/ LeafReturn
    \/ VisitSuccessor
    \/ LoopReturn
    \/ ReturnLongest

\* the call runs in one process without waiting for anything: every step,
\* once possible, is taken
SpecPath == PathInit /\ [][PathNext]_vars /\ WF_vars(PathNext)

\* ------------------------------------------------------------------------
\* PDF download: _download_pdf, download_single_pdf, main
\* (pipeline/download.py) and identify_new_devices (pipeline/pipeline.py)
\* ------------------------------------------------------------------------
DlDevices == {"K900001", "K900002", "K250003"}

\* did.startswith("K90") (pipeline/download.py:203)
starts_with_K90(did) == did \in {"K900001", "K900002"}

\* days since the decision_date of a registry device
DecisionAges == {10, 200, 400}

\* pipeline/pipeline.py:230-238: decision_date <= now - 365 days
is_old_device(age) == age >= 365

\* pipeline/pipeline.py:241-249: decision_date >= now - 30 days
is_recent_device(age) == age <= 30

\* what client.get(url) can come to: a status code, or a httpx.RequestError
Responses == {"200", "404", "500", "ConnectError"}

\* the responses after which a retry can succeed
Transient == {"500", "ConnectError"}

\* pipeline/download.py:63-96
\* (file_path and file_size of the result follow from device_id and are left out)
download_pdf(device_id, response) ==
    CASE response = "200" -> [device_id |-> device_id, status |-> "success", error |-> None]
      [] response = "404" -> [device_id |-> device_id, status |-> "not_found", error |-> "HTTP 404"]
      [] response = "500" -> [device_id |-> device_id, status |-> "failed", error |-> "HTTP 500"]
      [] response = "ConnectError" -> [device_id |-> device_id, status |-> "failed", error |-> "ConnectError"]

\* pipeline/download.py:99-136: the result, from whether the file exists and
\* the responses of the expected URL and of the reviews URL
download_single_pdf(device_id, exists, good, fb) ==
    IF exists
      THEN [device_id |-> device_id, status |-> "skipped", error |-> None]
      ELSE LET good_res == download_pdf(device_id, good)
               fb_res == download_pdf(device_id, fb) IN
           IF good_res.status = "success"
             THEN good_res
             ELSE IF fb_res.status = "success" THEN fb_res ELSE good_res

\* pipeline/pipeline.py:258-278
identify_new_devices(ages, skip, pdfs) ==
    LET fda_device_ids == DOMAIN ages
        device_ids_1yold == {d \in DOMAIN ages : is_old_device(ages[d])}
        device_ids_recent == {d \in DOMAIN ages : is_recent_device(ages[d])}
        device_ids_with_no_summary == {skip[i] : i \in 1..Len(skip)} IN
    (((fda_device_ids \ device_ids_with_no_summary) \ device_ids_1yold) \ pdfs)
    \cup (device_ids_recent \ pdfs)

\* pipeline/download.py:192-203
main_to_download(ages, skip, pdfs) ==
    {did \in ((DOMAIN ages \ {skip[i] : i \in 1..Len(skip)}) \ pdfs) :
        starts_with_K90(did)}

\* the results of a run whose status is not_found, in order
not_found_ids(results) ==
    LET found == SelectSeq(results, LAMBDA r : r.status = "not_found") IN
    [i \in 1..Len(found) |-> found[i].device_id]

DownloadInit ==
    /\ dl_pc = "start"
    /\ dl_ages \in [DlDevices -> DecisionAges]
    /\ no_summary = <<>>
    /\ local_pdfs = {}
    /\ to_download = {}
    /\ dl_results = <<>>
    /\ dl_last = NotRun
    /\ DownloadRest

\* new_fda_devices(): the download set of a pipeline run
\* (pipeline/pipeline.py:281-286)
IdentifyNewDevices ==
    /\ dl_pc = "start"
    /\ to_download' = identify_new_devices(dl_ages, no_summary, local_pdfs)
    /\ dl_pc' = "identified"
    /\ dl_results' = <<>>
    /\ UNCHANGED <<dl_ages, no_summary, local_pdfs, dl_last>>
    /\ DownloadFrame

\* the pipeline run is over; the next run starts
\* (its downloads go through download_pdf_sync, which is not in the source)
PipelineRunEnds ==
    /\ dl_pc = "identified"
    /\ dl_pc' = "start"
    /\ UNCHANGED <<dl_ages, no_summary, local_pdfs, to_download, dl_results, dl_last>>
    /\ DownloadFrame

\* download.main up to the download set (pipeline/download.py:192-203)
MainSelects ==
    /\ dl_pc = "start"
    /\ to_download' = main_to_download(dl_ages, no_summary, local_pdfs)
    /\ dl_pc' = "downloading"
    /\ dl_results' = <<>>
    /\ UNCHANGED <<dl_ages, no_summary, local_pdfs, dl_last>>
    /\ DownloadFrame

\* one download_single_pdf of download_pdfs_async completes
\* (pipeline/download.py:99-136 and 155-157)
DownloadSinglePdf ==
    /\ dl_pc = "downloading"
    /\ \E device_id \in to_download : \E good, fb \in Responses :
         /\ \A i \in 1..Len(dl_results) : dl_results[i].device_id # device_id
         /\ LET result == download_single_pdf(device_id, device_id \in local_pdfs, good, fb) IN
              /\ dl_results' = Append(dl_results, result)
              /\ dl_last' = [device_id |-> device_id, good |-> good, fb |-> fb,
                             result |-> result]
              /\ local_pdfs' = IF result.status = "success"
                                 THEN local_pdfs \cup {device_id}
                                 ELSE local_pdfs
    /\ UNCHANGED <<dl_pc, dl_ages, no_summary, to_download>>
    /\ DownloadFrame

\* download.main after download_pdfs: pipeline/download.py:216-222
RecordNoSummary ==
    /\ dl_pc = "downloading"
    /\ Len(dl_results) = Cardinality(to_download)
    /\ no_summary' = sorted(no_summary \o not_found_ids(dl_results))
    /\ dl_pc' = "start"
    /\ UNCHANGED <<dl_ages, local_pdfs, to_download, dl_results, dl_last>>
    /\ DownloadFrame

\* ---- properties of the download

\* C18: download_single_pdf reports not_found only when no URL it tried
\* failed transiently (with a non-404 HTTP error or a network error).
C18_NotFoundOnlyWithoutTransient ==
    (dl_last # NotRun /\ dl_last.result.status = "not_found")
        => (dl_last.good \notin Transient /\ dl_last.fb \notin Transient)

\* C19: a device listed in no_summary is in the download set of no later
\* run, whatever its decision date, neither in the set of
\* identify_new_devices nor in the set of download.main.
C19_NoSummaryNeverSelected ==
    dl_pc \in {"identified", "downloading"} =>
        \A i \in 1..Len(no_summary) : no_summary[i] \notin to_download

DownloadNext ==
    \/ IdentifyNewDevices
    \/ PipelineRunEnds
    \/ MainSelects
    \/ DownloadSinglePdf
    \/ RecordNoSummary

SpecDownload == DownloadInit /\ [][DownloadNext]_vars

\* ------------------------------------------------------------------------
\* Whole runs of run_pipeline over a given device list
\* (run_pipeline.py:107-133 and 162-195)
\* ------------------------------------------------------------------------
\* The download loop reads the device of a DownloadResult as result.k_number
\* (run_pipeline.py:174); the class names that field device_id, and the model
\* reads it there, as DownloadUpdate above does.

MaxRuns == 2        \* runs of run_pipeline in a row

\* the lists --k-numbers gives, or sorted(extract_k_numbers(fda_data))
RunLists == {<<"K000001">>, <<"K000002">>, <<"K000001", "K000002">>}

RECURSIVE update_db_from_downloads(_, _)
\* the loop of run_pipeline.py:171-177 over download_summary.results
update_db_from_downloads(devices, results) ==
    IF results = <<>>
      THEN devices
      ELSE update_db_from_downloads(
               update_device_from_download(devices, Head(results).device_id,
                                           Head(results).status = "success",
                                           Head(results).error),
               Tail(results))

RECURSIVE update_db_from_results(_, _)
\* run_pipeline.py:68-86
update_db_from_results(devices, results) ==
    IF results = <<>>
      THEN devices
      ELSE update_db_from_results(update_db_from_result(devices, Head(results)),
                                  Tail(results))

\* extract_all (extract.py:296-330): one result per device whose PDF exists
extract_all(k_numbers, pdfs, docs) ==
    LET present == SelectSeq(k_numbers, LAMBDA k : k \in pdfs) IN
    [i \in 1..Len(present) |-> docs[present[i]]]

RunInit ==
    /\ run_pc = "start"
    /\ run_no = 1
    /\ run_k_numbers \in RunLists
    /\ run_docs \in [DbDevices -> UNION {ExtractionResults(k) : k \in DbDevices}]
    /\ \A k \in DbDevices : run_docs[k].k_number = k
    /\ run_results = <<>>
    /\ db_json = NoDevices
    /\ after_first = NotRun
    /\ db_devices = NoDevices
    /\ pdf_files \in SUBSET DbDevices
    /\ db_op = "none"
    /\ db_k = "none"
    /\ RunRest

\* db = load_db(paths["db"]) (run_pipeline.py:119, 133)
RunLoadDb ==
    /\ run_pc = "start"
    /\ db_devices' = db_json
    /\ run_pc' = "loaded"
    /\ UNCHANGED <<pdf_files, db_op, db_k, run_no, run_k_numbers, run_docs,
                   run_results, db_json, after_first>>
    /\ RunFrame

\* step 2: download_pdfs, the update of db from its results, save_db
\* (run_pipeline.py:162-180)
RunDownloadStep ==
    /\ run_pc = "loaded"
    /\ \E results \in [1..Len(run_k_numbers) ->
                          UNION {DownloadResults(k) : k \in DbDevices}] :
         /\ \A i \in 1..Len(run_k_numbers) :
              results[i] \in DownloadResults(run_k_numbers[i])
         /\ run_results' = results
         /\ pdf_files' = pdf_files \cup
              {results[i].device_id : i \in {j \in 1..Len(results) :
                                               results[j].status = "success"}}
         /\ db_devices' = update_db_from_downloads(db_devices, results)
    /\ db_json' = db_devices'
    /\ db_op' = "download"
    /\ run_pc' = "downloaded"
    /\ UNCHANGED <<db_k, run_no, run_k_numbers, run_docs, after_first>>
    /\ RunFrame

\* step 3: extract_all, update_db_from_results, save_db
\* (run_pipeline.py:182-195)
RunExtractionStep ==
    /\ run_pc = "downloaded"
    /\ db_devices' = update_db_from_results(
                         db_devices, extract_all(run_k_numbers, pdf_files, run_docs))
    /\ db_json' = db_devices'
    /\ db_op' = "extraction"
    /\ after_first' = IF run_no = 1 THEN db_devices' ELSE after_first
    /\ run_pc' = "done"
    /\ UNCHANGED <<pdf_files, db_k, run_no, run_k_numbers, run_docs, run_results>>
    /\ RunFrame

\* run_pipeline is started again with the same arguments
RunAgain ==
    /\ run_pc = "done"
    /\ run_no < MaxRuns
    /\ run_no' = run_no + 1
    /\ run_pc' = "start"
    /\ run_results' = <<>>
    /\ UNCHANGED <<db_devices, pdf_files, db_op, db_k, run_k_numbers, run_docs,
                   db_json, after_first>>
    /\ RunFrame

\* ---- properties of whole runs

RunNext ==
    \/ RunLoadDb
    \/ RunDownloadStep
    \/ RunExtractionStep
    \/ RunAgain

SpecRun == RunInit /\ [][RunNext]_vars

\* ========================================================================
\* Company clustering: find_parent_companies (cluster_companies.py)
\* ========================================================================
\* An applicant name is a sequence of whitespace-separated tokens; a
\* normalized name is the sequence of its words (normalize_name leaves
\* single spaces between words, so split() and " ".join() are inverse).

\* thresholds written into find_parent_companies
MinFirstWordLen == 4       \* cluster_companies.py:125
TwoWordMinVariants == 3    \* cluster_companies.py:149
TwoWordMinDevices == 100   \* cluster_companies.py:149

\* str.lower() on the tokens the applicant names are made of
lower(token) ==
    CASE token = "Boston" -> "boston"
      [] token = "BOSTON" -> "boston"
      [] token = "Sci" -> "sci"
      [] token = "SCI" -> "sci"
      [] token = "Vascular" -> "vascular"
      [] token = "Cardio" -> "cardio"
      [] token = "Inc." -> "inc."
      [] token = "LLC" -> "llc"
      [] token = "(USA)" -> "(usa)"
      [] token = "Abc" -> "abc"
      [] token = "Labs" -> "labs"
      [] token = "Medical" -> "medical"
      [] OTHER -> token

\* re.sub(r"\([^)]*\)", "", ...) removes a token in parentheses
is_parenthetical(token) == token \in {"(usa)"}

\* the tokens SUFFIX_PATTERN matches whole; no other word of the names
\* below ends in one of its alternatives
is_suffix(token) == token \in {"inc.", "llc"}

RECURSIVE lower_all(_)
lower_all(tokens) ==
    IF tokens = <<>> THEN <<>>
    ELSE <<lower(Head(tokens))>> \o lower_all(Tail(tokens))

RECURSIVE without_parenthetical(_)
without_parenthetical(tokens) ==
    IF tokens = <<>> THEN <<>>
    ELSE IF is_parenthetical(Head(tokens)) THEN without_parenthetical(Tail(tokens))
    ELSE <<Head(tokens)>> \o without_parenthetical(Tail(tokens))

\* SUFFIX_PATTERN.sub("", ...): the pattern ends in \s*$, one suffix goes
without_suffix(tokens) ==
    IF tokens # <<>> /\ is_suffix(tokens[Len(tokens)])
    THEN SubSeq(tokens, 1, Len(tokens) - 1)
    ELSE tokens

normalize_name(name) == without_suffix(without_parenthetical(lower_all(name)))

COMMON_WORDS ==
    {"american", "medical", "the", "general", "national", "international",
     "advanced", "united", "precision", "global", "bio", "diagnostic",
     "health", "healthcare", "surgical", "clinical", "digital", "electronic",
     "applied", "professional", "scientific", "shenzhen", "shanghai", "beijing",
     "guangzhou", "hangzhou", "suzhou", "jiangsu", "zhejiang", "new", "first"}

\* the applicant names of the input and the device counts they come with
ApplicantNames ==
    { <<"Boston">>,
      <<"Boston", "Sci">>,
      <<"BOSTON", "SCI", "(USA)">>,
      <<"Boston", "Sci", "Vascular">>,
      <<"Boston", "Sci", "Cardio", "Inc.">>,
      <<"Abc", "Labs">>,
      <<"Medical", "Sci">> }
DeviceCounts == {1, 50}
MinVariantsArgs == {2, 5}
MinDevicesArgs == {100, 200}

RECURSIVE sum_counts(_, _)
sum_counts(names, counts) ==
    IF names = {} THEN 0
    ELSE LET n == CHOOSE x \in names : TRUE
         IN  counts[n] + sum_counts(names \ {n}, counts)

first_words(words, n) == SubSeq(words, 1, n)

\* first_word_groups[first_word], as the set of its names
first_word_group(counts, first_word) ==
    { n \in DOMAIN counts :
        /\ normalize_name(n) # <<>>
        /\ normalize_name(n)[1] = first_word
        /\ first_word \notin COMMON_WORDS }

\* two_word_groups[two_word] inside the group of its first word
two_word_group(counts, two_word) ==
    { n \in first_word_group(counts, two_word[1]) :
        /\ Len(normalize_name(n)) >= 2
        /\ first_words(normalize_name(n), 2) = two_word }

unique_normalized(names) == { normalize_name(n) : n \in names }

find_parent_companies(counts, minv, mind) ==
    LET groups == { normalize_name(n)[1] :
                      n \in { m \in DOMAIN counts : normalize_name(m) # <<>> } }
                  \ COMMON_WORDS
        long == { w \in groups : Len(w) >= MinFirstWordLen }
        one == { <<w>> : w \in
                   { v \in long :
                       LET names == first_word_group(counts, v)
                       IN  /\ <<v>> \in unique_normalized(names)
                           /\ Cardinality(unique_normalized(names)) >= minv
                           /\ sum_counts(names, counts) >= mind } }
        pairs == { first_words(normalize_name(n), 2) :
                     n \in { m \in DOMAIN counts :
                               /\ Len(normalize_name(m)) >= 2
                               /\ normalize_name(m)[1] \in long } }
        two == { tw \in pairs :
                   LET names == two_word_group(counts, tw)
                   IN  /\ tw \in unique_normalized(names)
                       /\ Cardinality(unique_normalized(names)) >= TwoWordMinVariants
                       /\ sum_counts(names, counts) >= TwoWordMinDevices }
    IN  one \cup two

ClusterInit ==
    /\ cl_pc = "start"
    /\ \E names \in SUBSET ApplicantNames : name_counts \in [names -> DeviceCounts]
    /\ min_variants \in MinVariantsArgs
    /\ min_devices \in MinDevicesArgs
    /\ cl_parents = {}
    /\ ClusterRest

FindParentCompanies ==
    /\ cl_pc = "start"
    /\ cl_parents' = find_parent_companies(name_counts, min_variants, min_devices)
    /\ cl_pc' = "done"
    /\ UNCHANGED <<name_counts, min_variants, min_devices>>
    /\ ClusterFrame

\* ---- properties of find_parent_companies

\* the names grouped under a candidate: those whose normalized form begins
\* with the candidate's words
candidate_group(candidate) ==
    { n \in DOMAIN name_counts :
        /\ Len(normalize_name(n)) >= Len(candidate)
        /\ first_words(normalize_name(n), Len(candidate)) = candidate }

\* C21: a one-word or two-word candidate is in the returned parent set only
\* if it is itself a normalized applicant name and its group has at least
\* min_variants distinct normalized names and at least min_devices devices.
C21_ParentMeetsPassedThresholds ==
    cl_pc = "done" =>
        \A c \in cl_parents :
            /\ c \in unique_normalized(DOMAIN name_counts)
            /\ Cardinality(unique_normalized(candidate_group(c))) >= min_variants
            /\ sum_counts(candidate_group(c), name_counts) >= min_devices

ClusterNext == FindParentCompanies

SpecCluster == ClusterInit /\ [][ClusterNext]_vars

\* ========================================================================
\* Identifier lists on their way to the aggregated output and the store:
\* parse_k_numbers_from_response (benchmark_extraction.py:139-155), the
\* --predicates argument of verify.py (verify.py:156-161, db.py:169-182) and
\* the ground-truth files read by existing_predicates_aggregate
\* (pipeline.py:294-319).  Identifiers are sequences of characters.
\* ========================================================================
MaxIds == 2    \* most identifiers one source holds

\* the strings a source can hold: an identifier of each accepted family, one
\* followed by a blank, and two strings of neither family
SourceStrings ==
    { <<"K", "0", "0", "0", "0", "0", "9">>,
      <<"K", "0", "0", "0", "0", "0", "9", " ">>,
      <<"D", "E", "N", "0", "0", "0", "0", "0", "1">>,
      <<"K", "1", "2">>,
      <<"x">> }

RECURSIVE SourceLists(_)
SourceLists(n) ==
    IF n = 0
      THEN {<<>>}
      ELSE LET shorter == SourceLists(n - 1) IN
           shorter \cup {Append(s, x) : s \in shorter, x \in SourceStrings}

IngestRoutes == {"parse_response", "verify", "existing"}

\* the accepted identifier grammar: the prefix K or DEN, then six digits
den_fullmatch(s) ==
    /\ Len(s) = 9
    /\ s[1] = "D" /\ s[2] = "E" /\ s[3] = "N"
    /\ \A j \in 4..9 : is_digit(s[j])

accepted_identifier(s) == k_fullmatch(s) \/ den_fullmatch(s)

\* re.match(r"^K\d{6}$", str(k)): $ also matches before a final newline
k_match_to_end(s) ==
    /\ k_number_at(s, 1)
    /\ \/ Len(s) = 7
       \/ Len(s) = 8 /\ s[8] = "\n"

\* benchmark_extraction.py:145-150, for a response whose JSON array parsed
parse_k_numbers_from_response(parsed) == SelectSeq(parsed, k_match_to_end)

RECURSIVE lstrip(_)
lstrip(s) == IF s # <<>> /\ is_space(s[1]) THEN lstrip(Tail(s)) ELSE s

\* str.strip()
py_strip(s) == lstrip(strip(s))

\* verify.py:159: [p.strip() for p in args.predicates.split(",") if p.strip()]
verify_predicates(pieces) ==
    LET kept == SelectSeq(pieces, LAMBDA p : py_strip(p) # <<>>) IN
    [i \in 1..Len(kept) |-> py_strip(kept[i])]

\* the device the verify command names, with an entry in the store
VerifiedDevice == "K000001"
StoreBeforeVerify == [k \in {VerifiedDevice} |-> DeviceEntry]

\* pipeline.py:307-318: the record a ground-truth file gives a device
existing_record(value, method, source, type) ==
    [predicates |-> value, method |-> method, source |-> source, type |-> type]

IngestInit ==
    /\ ing_pc = "start"
    /\ ing_route \in IngestRoutes
    /\ ing_source \in SourceLists(MaxIds)
    /\ ing_out = NotRun
    /\ IngestRest

\* parse_k_numbers_from_response on a response that holds a JSON array
ParseResponse ==
    /\ ing_pc = "start"
    /\ ing_route = "parse_response"
    /\ ing_out' = parse_k_numbers_from_response(ing_source)
    /\ ing_pc' = "done"
    /\ UNCHANGED <<ing_route, ing_source>>
    /\ IngestFrame

\* verify.py main with --predicates, verify_device, set_human_verified
VerifyCommand ==
    /\ ing_pc = "start"
    /\ ing_route = "verify"
    /\ ing_out' = set_human_verified(StoreBeforeVerify, VerifiedDevice,
                                     verify_predicates(ing_source))[VerifiedDevice].predicates
    /\ ing_pc' = "done"
    /\ UNCHANGED <<ing_route, ing_source>>
    /\ IngestFrame

\* existing_predicates_aggregate on the entry of an overrides file
ExistingPredicates ==
    /\ ing_pc = "start"
    /\ ing_route = "existing"
    /\ ing_out' = existing_record(ing_source, "human", "raw", "human_raw").predicates
    /\ ing_pc' = "done"
    /\ UNCHANGED <<ing_route, ing_source>>
    /\ IngestFrame

\* ---- properties of the identifier lists

\* C22: every identifier of a list that was passed on matches the accepted
\* grammar, and a source holding an identifier that fails the grammar passes
\* no list on: neither the list as it is nor the list without that element.
C22_OnlyAcceptedIdentifiers ==
    ing_pc = "done" =>
        /\ \A i \in 1..Len(ing_out) : accepted_identifier(ing_out[i])
        /\ \A i \in 1..Len(ing_source) : accepted_identifier(py_strip(ing_source[i]))

IngestNext ==
    \/ ParseResponse
    \/ VerifyCommand
    \/ ExistingPredicates

SpecIngest == IngestInit /\ [][IngestNext]_vars

\* ========================================================================
\* The fetch-and-diff step: fetch_and_diff_with_db (pipeline/fetch.py),
\* get_devices_needing_processing (pipeline/db.py:84-119)
\* ========================================================================
MaxSnapshot == 3    \* most records in the results array of a snapshot

\* the k_number values of the records: two K-prefixed identifiers, a
\* DEN-prefixed one, and "" for a record without the field
\* (device.get("k_number", ""))
FetchIds == {"K000001", "K000002", "DEN200001"}
SnapshotValues == FetchIds \cup {""}

RECURSIVE Snapshots(_)
Snapshots(n) ==
    IF n = 0
      THEN {<<>>}
      ELSE LET shorter == Snapshots(n - 1) IN
           shorter \cup {Append(s, v) : s \in shorter, v \in SnapshotValues}

\* the entries of the store, by the fields get_devices_needing_processing
\* reads; last_processed is held as the days since that moment
FetchEntries ==
    {[pdf_present |-> TRUE, human_verified |-> FALSE,
      extraction_method |-> "pymupdf", chars_per_page |-> 10, last_processed |-> 5],
     [pdf_present |-> TRUE, human_verified |-> TRUE,
      extraction_method |-> "pymupdf", chars_per_page |-> 10, last_processed |-> 5],
     [pdf_present |-> TRUE, human_verified |-> FALSE,
      extraction_method |-> "pymupdf", chars_per_page |-> 10, last_processed |-> 90]}

\* k_num.startswith("K") (fetch.py:67)
starts_with_K(k_num) == k_num \in {"K000001", "K000002"}

\* fetch.py:62-69
fetch_extract_k_numbers(results) ==
    { results[i] : i \in { j \in DOMAIN results : starts_with_K(results[j]) } }

RECURSIVE sorted_set(_)
\* sorted(s) for a set of strings
sorted_set(s) ==
    IF s = {} THEN <<>>
    ELSE LET least == CHOOSE x \in s : \A y \in s : str_rank(x) <= str_rank(y)
         IN  <<least>> \o sorted_set(s \ {least})

\* db.py:102-117: a reprocess candidate; cutoff = now - reprocess_months * 30 days
is_reprocess_candidate(entry, reprocess_months) ==
    /\ entry.pdf_present
    /\ ~entry.human_verified
    /\ entry.extraction_method = "pymupdf"
    /\ entry.chars_per_page < 50
    /\ entry.last_processed < reprocess_months * 30

\* db.py:84-119, as (new_devices, reprocess_devices)
get_devices_needing_processing(devices, fda_k_numbers, reprocess_months) ==
    <<sorted_set(fda_k_numbers \ DOMAIN devices),
      sorted_set({k \in DOMAIN devices :
                    is_reprocess_candidate(devices[k], reprocess_months)})>>

FetchInit ==
    /\ fe_pc = "start"
    /\ fe_results \in Snapshots(MaxSnapshot)
    /\ \E present \in SUBSET FetchIds : fe_db \in [present -> FetchEntries]
    /\ fe_new = <<>>
    /\ fe_reprocess = <<>>
    /\ FetchRest

\* fetch.py:137-188 with reprocess_months = 2 (run_pipeline.py:139)
FetchAndDiffWithDb ==
    /\ fe_pc = "start"
    /\ LET answer == get_devices_needing_processing(
                         fe_db, fetch_extract_k_numbers(fe_results), 2) IN
         /\ fe_new' = answer[1]
         /\ fe_reprocess' = answer[2]
    /\ fe_pc' = "done"
    /\ UNCHANGED <<fe_results, fe_db>>
    /\ FetchFrame

\* ---- properties of the fetch-and-diff step

\* C23: every identifier of the snapshot that has no entry in the store is
\* in new_k_numbers, for the K-prefixed and the DEN-prefixed family alike.
C23_NoSnapshotRecordLost ==
    fe_pc = "done" =>
        \A i \in DOMAIN fe_results :
            (fe_results[i] \in FetchIds /\ fe_results[i] \notin DOMAIN fe_db)
              => \E j \in DOMAIN fe_new : fe_new[j] = fe_results[i]

FetchNext == FetchAndDiffWithDb

SpecFetch == FetchInit /\ [][FetchNext]_vars

\* ========================================================================
\* Aggregation and merge with the existing predicates in
\* fda_extraction_pipeline (pipeline.py:435-472)
\* ========================================================================
MaxNew == 2    \* most results the extraction stages give for the device

\* aggregate.py:19-28, read with .get((method, source), 99)
EXTRACTION_PRIORITY(method, source) ==
    CASE method = "human" /\ source = "raw" -> -1
      [] method = "claude_code" /\ source = "raw" -> 0
      [] method = "ministral3b_3b" /\ source = "ministral" -> 1
      [] method = "ministral3b_3b" /\ source = "tesseract" -> 2
      [] method = "ministral3b_3b" /\ source = "raw" -> 3
      [] method = "regex" /\ source = "ministral" -> 4
      [] method = "regex" /\ source = "tesseract" -> 5
      [] method = "regex" /\ source = "raw" -> 6
      [] OTHER -> 99

\* pipeline.py:143-152, read with .get((method, source), 99)
pipeline_EXTRACTION_PRIORITY(method, source) ==
    CASE method = "human" /\ source = "raw" -> -1
      [] method = "claude_code" /\ source = "raw" -> 0
      [] method = "ministral3b_3b" /\ source = "ministral" -> 1
      [] method = "ministral3b_3b" /\ source = "tesseract" -> 2
      [] method = "ministral3b_3b" /\ source = "raw" -> 3
      [] method = "regex" /\ source = "ministral" -> 4
      [] method = "regex" /\ source = "tesseract" -> 5
      [] method = "regex" /\ source = "raw" -> 6
      [] OTHER -> 99

\* the tags of the results of the extraction stages: method, the text source
\* chosen at pipeline.py:407-412, and type = method + "_" + source
\* (pipeline.py:438)
StageTags ==
    {[method |-> "regex", source |-> "pymupdf", type |-> "regex_pymupdf"],
     [method |-> "regex", source |-> "tesseract", type |-> "regex_tesseract"],
     [method |-> "regex", source |-> "ministral", type |-> "regex_ministral"],
     [method |-> "ollama_ministral-3:3b", source |-> "pymupdf",
      type |-> "ollama_ministral-3:3b_pymupdf"]}

\* pipeline.py:297-307: the ground-truth files in the order of filepaths, each
\* with the tags it gives its entries
GtFiles ==
    <<[method |-> "human", source |-> "raw", type |-> "human_raw"],
      [method |-> "claude_code", source |-> "raw", type |-> "claude_code_raw"],
      [method |-> "regex", source |-> "ministral3b", type |-> "regex_ministral3b"],
      [method |-> "regex", source |-> "raw", type |-> "regex_pymupdf"]>>

MergedDevice == "K000001"

\* the predicates lists of the results, and the list the device has in a
\* ground-truth file
StagePredicates == {<<>>, <<"K000009">>}
GtPredicates == <<"K000008">>

StageResults ==
    { [device_id |-> MergedDevice, predicates |-> ps, method |-> t.method,
       source |-> t.source, type |-> t.type, error |-> e] :
          ps \in StagePredicates, t \in StageTags, e \in AggErrors }

RECURSIVE StageResultLists(_)
StageResultLists(n) ==
    IF n = 0
      THEN {<<>>}
      ELSE LET shorter == StageResultLists(n - 1) IN
           shorter \cup {Append(s, r) : s \in shorter, r \in StageResults}

\* pipeline.py:294-319 for the device: files are read in the order
\* filepaths[::-1], so the entry of the first file that holds one is the
\* last one written
existing_predicates_aggregate(files) ==
    IF files = {}
      THEN NoDevices
      ELSE LET first == CHOOSE i \in files : \A j \in files : i <= j IN
           [d \in {MergedDevice} |->
              [predicates |-> GtPredicates, method |-> GtFiles[first].method,
               source |-> GtFiles[first].source, type |-> GtFiles[first].type]]

\* pipeline.py:452-466 for one item of aggregated_results
merge_item(existing, device_id, data) ==
    IF ~has_key(existing, device_id)
      THEN [d \in DOMAIN existing \cup {device_id} |->
              IF d = device_id THEN data ELSE existing[d]]
      ELSE LET existing_priority ==
                   pipeline_EXTRACTION_PRIORITY(existing[device_id].method,
                                                existing[device_id].source)
               new_priority == pipeline_EXTRACTION_PRIORITY(data.method, data.source)
           IN  IF new_priority < existing_priority
                 THEN [existing EXCEPT ![device_id].predicates = data.predicates]
                 ELSE existing

RECURSIVE merge_items(_, _, _)
\* the loop over aggregated_results.items() (sorted by device_id)
merge_items(existing, aggregated_results, todo) ==
    IF todo = {}
      THEN existing
      ELSE LET d == CHOOSE x \in todo : \A y \in todo : str_rank(x) <= str_rank(y) IN
           merge_items(merge_item(existing, d, aggregated_results[d]),
                       aggregated_results, todo \ {d})

MergeInit ==
    /\ mg_pc = "start"
    /\ mg_results \in StageResultLists(MaxNew)
    /\ mg_files \in SUBSET (1..Len(GtFiles))
    /\ mg_aggregated = NotRun
    /\ mg_final = NotRun
    /\ MergeRest

\* pipeline.py:445-447
AggregateLocalResults ==
    /\ mg_pc = "start"
    /\ mg_aggregated' = pipeline_aggregate_predicates(AsPairs(mg_results))
    /\ mg_pc' = "aggregated"
    /\ UNCHANGED <<mg_results, mg_files, mg_final>>
    /\ MergeFrame

\* pipeline.py:449-472
MergeWithExisting ==
    /\ mg_pc = "aggregated"
    /\ mg_final' = merge_items(existing_predicates_aggregate(mg_files),
                               mg_aggregated, DOMAIN mg_aggregated)
    /\ mg_pc' = "done"
    /\ UNCHANGED <<mg_results, mg_files, mg_aggregated>>
    /\ MergeFrame

\* ---- properties of the aggregation and merge

\* the tags a run has met: those of its results and of the existing record
TagOf(r) == [method |-> r.method, source |-> r.source, type |-> r.type]

TagsOfRun ==
    {TagOf(mg_results[i]) : i \in DOMAIN mg_results}
      \cup {GtFiles[i] : i \in mg_files}

\* the four tables order two tags the same way
SameOrder(a, b) ==
    LET in_new == pipeline_NEW_EXTRACTION_PRIORITY(a.type)
                    < pipeline_NEW_EXTRACTION_PRIORITY(b.type) IN
    /\ in_new = (NEW_EXTRACTION_PRIORITY(a.type) < NEW_EXTRACTION_PRIORITY(b.type))
    /\ in_new = (pipeline_EXTRACTION_PRIORITY(a.method, a.source)
                   < pipeline_EXTRACTION_PRIORITY(b.method, b.source))
    /\ in_new = (EXTRACTION_PRIORITY(a.method, a.source)
                   < EXTRACTION_PRIORITY(b.method, b.source))

\* C24: the aggregation step and the merge step order every two tags of a
\* run the same way: NEW_EXTRACTION_PRIORITY and EXTRACTION_PRIORITY, in
\* aggregate.py and in pipeline.py, agree on which of the two ranks higher.
C24_OnePriorityOrder ==
    mg_pc = "done" => \A a, b \in TagsOfRun : SameOrder(a, b)

\* C25: after the merge the final record of every device is the record of
\* one extraction: its predicates, method, source and type are those of the
\* existing record or those of the new aggregated result.
C25_FinalRecordConsistent ==
    mg_pc = "done" =>
        \A d \in DOMAIN mg_final :
            \/ /\ has_key(existing_predicates_aggregate(mg_files), d)
               /\ mg_final[d] = existing_predicates_aggregate(mg_files)[d]
            \/ /\ has_key(mg_aggregated, d)
               /\ mg_final[d] = mg_aggregated[d]

MergeNext ==
    \/ AggregateLocalResults
    \/ MergeWithExisting

SpecMerge == MergeInit /\ [][MergeNext]_vars

\* ========================================================================
\* download_pdfs_async: the download coroutines and their semaphore
\* (pipeline/download.py:99-164)
\* ========================================================================
\* Each download_single_pdf coroutine runs from one await to the next without
\* interruption; the steps below are those stretches.  The tasks may start
\* and the waiters of the semaphore may wake in any order.

MaxAsyncDevices == 3   \* longest device_ids list
MaxConcurrent == 2     \* largest max_concurrent

AsyncIds == {"K250001", "K250002"}
AsyncResponses == {"200", "404", "500"}

RECURSIVE AsyncIdLists(_)
\* the non-empty lists of at most n device ids (an id may be given twice)
AsyncIdLists(n) ==
    IF n = 1
      THEN {<<d>> : d \in AsyncIds}
      ELSE LET shorter == AsyncIdLists(n - 1) IN
           shorter \cup {Append(s, d) : s \in shorter, d \in AsyncIds}

\* a coroutine that asyncio.as_completed has wrapped and not yet run
NewTask ==
    [pc |-> "new", found |-> FALSE, requests |-> 0, good_res |-> NotRun,
     fb_res |-> NotRun]

semaphore_free_always(value) == TRUE

\* "async with semaphore": the acquire goes through while the value is positive
semaphore_free(value) == value > 0

\* the positions of a coroutine inside the "async with semaphore" block
InSection == {"good_request", "good_sleep", "fb_request", "fb_sleep"}

\* output_path.write_bytes(response.content) on a 200 response
files_after(files, device_id, response) ==
    IF response = "200" THEN files \cup {device_id} ELSE files

AsyncInit ==
    /\ as_ids \in AsyncIdLists(MaxAsyncDevices)
    /\ as_max \in 1..MaxConcurrent
    /\ as_files \in SUBSET AsyncIds
    /\ as_sem = as_max
    /\ as_tasks = [i \in DOMAIN as_ids |-> NewTask]
    /\ as_results = <<>>
    /\ as_summary = NotRun
    /\ AsyncRest

\* download.py:108-115 and 123-124: the coroutine looks for the file; not
\* found, it acquires the semaphore and sends the request to the expected
\* URL, or waits for the semaphore
StartTask ==
    /\ \E i \in DOMAIN as_tasks :
         /\ as_tasks[i].pc = "new"
         /\ IF as_ids[i] \in as_files
              THEN /\ as_tasks' = [as_tasks EXCEPT ![i].pc = "done", ![i].found = TRUE]
                   /\ as_results' = Append(as_results,
                                           download_single_pdf(as_ids[i], TRUE, "200", "200"))
                   /\ UNCHANGED as_sem
              ELSE IF semaphore_free(as_sem)
                     THEN /\ as_tasks' = [as_tasks EXCEPT ![i].pc = "good_request",
                                                         ![i].requests = 1]
                          /\ as_sem' = as_sem - 1
                          /\ UNCHANGED as_results
                     ELSE /\ as_tasks' = [as_tasks EXCEPT ![i].pc = "waiting"]
                          /\ UNCHANGED <<as_sem, as_results>>
    /\ UNCHANGED <<as_ids, as_max, as_files, as_summary>>
    /\ AsyncFrame

\* download.py:123-124: a waiter gets the semaphore and sends the request
AcquireSemaphore ==
    /\ \E i \in DOMAIN as_tasks :
         /\ as_tasks[i].pc = "waiting"
         /\ semaphore_free(as_sem)
         /\ as_tasks' = [as_tasks EXCEPT ![i].pc = "good_request", ![i].requests = 1]
         /\ as_sem' = as_sem - 1
    /\ UNCHANGED <<as_ids, as_max, as_files, as_results, as_summary>>
    /\ AsyncFrame

\* download.py:124-125: _download_pdf on the expected URL returns, sleep begins
GoodResponse ==
    /\ \E i \in DOMAIN as_tasks : \E response \in AsyncResponses :
         /\ as_tasks[i].pc = "good_request"
         /\ as_tasks' = [as_tasks EXCEPT
                           ![i].pc = "good_sleep",
                           ![i].good_res = download_pdf(as_ids[i], response)]
         /\ as_files' = files_after(as_files, as_ids[i], response)
    /\ UNCHANGED <<as_ids, as_max, as_sem, as_results, as_summary>>
    /\ AsyncFrame

\* download.py:126-129: after the sleep, return good_res (leaving the block)
\* or send the request to the reviews URL
AfterGoodSleep ==
    /\ \E i \in DOMAIN as_tasks :
         /\ as_tasks[i].pc = "good_sleep"
         /\ IF as_tasks[i].good_res.status = "success"
              THEN /\ as_tasks' = [as_tasks EXCEPT ![i].pc = "done"]
                   /\ as_sem' = as_sem + 1
                   /\ as_results' = Append(as_results, as_tasks[i].good_res)
              ELSE /\ as_tasks' = [as_tasks EXCEPT ![i].pc = "fb_request",
                                                  ![i].requests = 2]
                   /\ UNCHANGED <<as_sem, as_results>>
    /\ UNCHANGED <<as_ids, as_max, as_files, as_summary>>
    /\ AsyncFrame

\* download.py:129-130: _download_pdf on the reviews URL returns, sleep begins
FbResponse ==
    /\ \E i \in DOMAIN as_tasks : \E response \in AsyncResponses :
         /\ as_tasks[i].pc = "fb_request"
         /\ as_tasks' = [as_tasks EXCEPT
                           ![i].pc = "fb_sleep",
                           ![i].fb_res = download_pdf(as_ids[i], response)]
         /\ as_files' = files_after(as_files, as_ids[i], response)
    /\ UNCHANGED <<as_ids, as_max, as_sem, as_results, as_summary>>
    /\ AsyncFrame

\* download.py:131-136: after the sleep, return fb_res or good_res
AfterFbSleep ==
    /\ \E i \in DOMAIN as_tasks :
         /\ as_tasks[i].pc = "fb_sleep"
         /\ as_tasks' = [as_tasks EXCEPT ![i].pc = "done"]
         /\ as_sem' = as_sem + 1
         /\ as_results' = Append(as_results,
                                 IF as_tasks[i].fb_res.status = "success"
                                   THEN as_tasks[i].fb_res
                                   ELSE as_tasks[i].good_res)
    /\ UNCHANGED <<as_ids, as_max, as_files, as_summary>>
    /\ AsyncFrame

count_status(results, status) ==
    Cardinality({i \in DOMAIN results : results[i].status = status})

\* download.py:158-164
ReturnSummary ==
    /\ as_summary = NotRun
    /\ \A i \in DOMAIN as_tasks : as_tasks[i].pc = "done"
    /\ as_summary' = [total |-> Len(as_ids),
                      success |-> count_status(as_results, "success"),
                      failed |-> count_status(as_results, "failed"),
                      skipped |-> count_status(as_results, "skipped"),
                      results |-> as_results]
    /\ UNCHANGED <<as_ids, as_max, as_files, as_sem, as_tasks, as_results>>
    /\ AsyncFrame

\* ---- properties of download_pdfs_async

TasksInSection == {i \in DOMAIN as_tasks : as_tasks[i].pc \in InSection}

\* C28: at most max_concurrent coroutines are inside the semaphore-guarded
\* block at any moment, and a coroutine that found the file of its device
\* on disk has sent no request.
C28_AtMostMaxConcurrent ==
    /\ Cardinality(TasksInSection) <= as_max
    /\ \A i \in DOMAIN as_tasks : as_tasks[i].found => as_tasks[i].requests = 0

\* the block is full while another coroutine waits for the semaphore, and a
\* coroutine whose file was on disk has ended without a request
C28_Witness ==
    /\ Cardinality(TasksInSection) = as_max
    /\ \E i \in DOMAIN as_tasks : as_tasks[i].pc = "waiting"
    /\ \E i \in DOMAIN as_tasks :
         /\ as_tasks[i].found
         /\ as_tasks[i].pc = "done"
         /\ as_tasks[i].requests = 0

\* C30: the summary holds one result per requested device and its counts
\* add up: success + failed + skipped = total.
C30_CountsAddUp ==
    as_summary # NotRun =>
        /\ Len(as_summary.results) = Len(as_ids)
        /\ \A d \in AsyncIds :
             Cardinality({i \in DOMAIN as_ids : as_ids[i] = d})
               = Cardinality({i \in DOMAIN as_summary.results :
                                as_summary.results[i].device_id = d})
        /\ as_summary.success + as_summary.failed + as_summary.skipped
             = as_summary.total

AsyncNext ==
    \/ StartTask
    \/ AcquireSemaphore
    \/ GoodResponse
    \/ AfterGoodSleep
    \/ FbResponse
    \/ AfterFbSleep
    \/ ReturnSummary

SpecAsync == AsyncInit /\ [][AsyncNext]_vars

====
